---- MODULE Spec2Model ----
(***************************************************************************)
(* Model of the classification-and-synthesis pipeline of x-daily-summary.  *)
(*                                                                         *)
(*   classify.py             parse_posts_from_markdown, classify_batch,    *)
(*                           _match_category, classify_post,               *)
(*                           select_top_per_category                       *)
(*   classify_embeddings.py  classify_posts_embedding, cosine_similarity   *)
(*   intel_report.py         generate_section, generate_intel_report_local,*)
(*                           generate_intel_report, _generate_gemini       *)
(*   scoring.py              calculate_engagement_score, add_z_scores      *)
(*   fetch_timeline.py, fetchers/x_fetcher.py   _parse_tweets              *)
(*   summarize.py            _engagement_score, build_markdown             *)
(*                                                                         *)
(* Each component has its own specification (SpecSelect, SpecClassify,     *)
(* SpecParse, SpecSection, SpecEmbed, SpecReport, SpecPublic, SpecScoring, *)
(* SpecPipeline, SpecMap); the variables of the other components stay at   *)
(* their idle values.  Text is modelled as a sequence of characters        *)
(* (one-character strings; the two code points of the heart emoji are the  *)
(* tokens "HEART" and "VS16"), so that substring tests, case folding,      *)
(* stripping and line splitting are computed, not assumed.                 *)
(***************************************************************************)
EXTENDS Integers, Sequences, FiniteSets, TLC

VARIABLES
    \* select_top_per_category
    posts,          \* the argument `posts`: a list of post dicts
    top_n,          \* the argument `top_n`
    by_category,    \* the returned dict, as its (key, value) items in insertion order
    sel_pc,         \* "idle", "call" before the function ran, "done" after it returned
    \* classify_batch and classify_post
    texts,          \* the argument `texts` (a text is named by its position)
    reply_lines,    \* the lines the generator call_fn answers with
    response,       \* the text call_fn returned, <<>> while it was not called
    results,        \* the list classify_batch returned
    post_result,    \* the value classify_post returned
    gen_calls,      \* how often call_fn was called
    cls_pc,         \* "idle", "call", "batch_done", "post_done", "raised"
    \* parse_posts_from_markdown
    markdown,       \* the lines of the digest read so far
    parsed,         \* the list `posts` of the function
    emitted_at,     \* history: for each post of `parsed`, the number of the line that emitted it
    current_author, \* the handle of the last author header, <<>> before the first
    current_block,  \* the buffered quoted lines
    parse_pc,       \* "idle", "scan" while lines are read, "raised" after an exception
    \* generate_section
    sec_category,   \* the argument `category`
    sec_posts,      \* the argument `posts`
    sec_reply,      \* the text _generate_ollama answers with
    section,        \* the returned text
    sec_calls,      \* how often _generate_ollama was called
    sec_pc,         \* "idle", "call", "done"
    \* classify_posts_embedding
    emb_anchors,      \* what get_embedding does for each category's description
    emb_posts,        \* the argument `posts`: dicts with a text and, once set, a category
    emb_replies,      \* what get_embedding does for each post's text
    emb_returned,     \* the returned count
    emb_anchor_calls, \* how often get_embedding was called for a category
    emb_post_calls,   \* how often get_embedding was called for a post
    emb_pc,           \* "idle", "call", "done"
    \* generate_intel_report_local
    rep_digest,        \* the argument raw_summary_md, as its lines
    top_per_category,  \* the argument top_per_category
    all_posts,         \* the parsed posts, with the category once it is set
    rep_i,             \* the loop variable i of the batch loop
    selection,         \* by_category, as its items in order
    sections,          \* the list `sections`
    invoked,           \* the categories generate_section was called for, in order
    exec_summary_text, \* the stripped reply to the summary prompt
    report,            \* the returned report
    rep_calls,         \* the generator calls made so far, in order, a classification
                       \* call with the results classify_batch made of its reply
    rep_pc,            \* "idle", "parse", "classify", "sections", "done", "raised"
    \* generate_intel_report, _generate_gemini
    pub_backend,   \* INTEL_BACKEND, lower-cased
    pub_env_top,   \* OLLAMA_TOP_PER_CATEGORY, when it is set
    pub_key,       \* GEMINI_API_KEY is set
    gem_attempts,  \* what each attempt of _gemini_generate did, in order
    raw_report,    \* the value _generate_gemini returned
    pub_report,    \* the value generate_intel_report returned
    pub_pc,        \* "idle", "start", "local", "gemini", "attempt", "assemble", "done", "raised"
    \* _parse_tweets, add_z_scores, build_markdown
    sc_metrics,    \* public_metrics of the fetched posts, in order
    sc_posts,      \* the post dicts the fetcher built from them
    sc_digest,     \* the per-post scores the digest writer computed
    sc_pc,         \* "idle", "parse", "normalise", "digest", "done",
                   \* "normalise_raised", "digest_raised"
    \* the operations on one collection of posts, taken in any order
    pl_digest,     \* the digest the collection was parsed from
    pl_parsed,     \* the posts as parse_posts_from_markdown returned them
    pl_posts,      \* the collection
    pl_selection,  \* the last value select_top_per_category returned
    pl_section,    \* the last value generate_section returned
    pl_done,       \* the operations applied to the collection so far
    pl_pc,         \* "idle", "parse", "ops"
    \* the map stage of generate_intel_report_local, its calls taken in any order
    map_posts,      \* the classified posts
    map_top_n,      \* top_per_category
    map_gen,        \* which function of its prompt the generator is
    map_selection,  \* by_category, as a sequence of items
    map_calls,      \* for each item, where its generate_section call stands and
                    \* the locals of that call
    map_sections,   \* for each item, what its call returned
    map_report,     \* the assembled report
    map_pc          \* "idle", "select", "map", "done"

selVars == <<posts, top_n, by_category, sel_pc>>

clsVars == <<texts, reply_lines, response, results, post_result, gen_calls, cls_pc>>

parseVars == <<markdown, parsed, emitted_at, current_author, current_block, parse_pc>>

secVars == <<sec_category, sec_posts, sec_reply, section, sec_calls, sec_pc>>

embVars == <<emb_anchors, emb_posts, emb_replies, emb_returned,
             emb_anchor_calls, emb_post_calls, emb_pc>>

repVars == <<rep_digest, top_per_category, all_posts, rep_i, selection, sections,
             invoked, exec_summary_text, report, rep_calls, rep_pc>>

pubVars == <<pub_backend, pub_env_top, pub_key, gem_attempts, raw_report, pub_report,
             pub_pc>>

scoreVars == <<sc_metrics, sc_posts, sc_digest, sc_pc>>

pipeVars == <<pl_digest, pl_parsed, pl_posts, pl_selection, pl_section, pl_done,
              pl_pc>>

mapVars == <<map_posts, map_top_n, map_gen, map_selection, map_calls, map_sections,
             map_report, map_pc>>

vars == <<selVars, clsVars, parseVars, secVars, embVars, repVars, pubVars, scoreVars, pipeVars, mapVars>>

(***************************************************************************)
(* Bounds of the model.                                                    *)
(***************************************************************************)
MaxPosts == 3
MaxTopN == 2
MaxTexts == 3
MaxLines == 2
MaxDigest == 5
MaxPieces == 3
MaxEmbedPosts == 2
MaxScored == 2
MaxCount == 1

(***************************************************************************)
(* Generic helpers.                                                        *)
(***************************************************************************)
Min(a, b) == IF a <= b THEN a ELSE b

Range(s) == {s[i] : i \in 1..Len(s)}

\* Absence of a value: Python's None (a missing "category" key read with .get()).
None == "<None>"

\* A component that is not running.
IdleSelect ==
    posts = <<>> /\ top_n = 0 /\ by_category = <<>> /\ sel_pc = "idle"

IdleClassify ==
    /\ texts = <<>> /\ reply_lines = <<>> /\ response = <<>> /\ results = <<>>
    /\ post_result = None /\ gen_calls = 0 /\ cls_pc = "idle"

IdleParse ==
    /\ markdown = <<>> /\ parsed = <<>> /\ emitted_at = <<>>
    /\ current_author = <<>> /\ current_block = <<>> /\ parse_pc = "idle"

IdleSection ==
    /\ sec_category = None /\ sec_posts = <<>> /\ sec_reply = <<>>
    /\ section = <<>> /\ sec_calls = 0 /\ sec_pc = "idle"

IdleEmbed ==
    /\ emb_anchors = <<>> /\ emb_posts = <<>> /\ emb_replies = <<>>
    /\ emb_returned = None /\ emb_anchor_calls = 0 /\ emb_post_calls = 0
    /\ emb_pc = "idle"

IdleReport ==
    /\ rep_digest = <<>> /\ top_per_category = 0 /\ all_posts = <<>> /\ rep_i = 0
    /\ selection = <<>> /\ sections = <<>> /\ invoked = <<>>
    /\ exec_summary_text = <<>> /\ report = <<>> /\ rep_calls = <<>>
    /\ rep_pc = "idle"

IdlePublic ==
    /\ pub_backend = None /\ pub_env_top = [is_set |-> FALSE, value |-> <<>>]
    /\ pub_key = FALSE
    /\ gem_attempts = <<>> /\ raw_report = [is_str |-> FALSE, text |-> <<>>]
    /\ pub_report = <<>> /\ pub_pc = "idle"

IdleScoring ==
    sc_metrics = <<>> /\ sc_posts = <<>> /\ sc_digest = <<>> /\ sc_pc = "idle"

IdlePipeline ==
    /\ pl_digest = <<>> /\ pl_parsed = <<>> /\ pl_posts = <<>>
    /\ pl_selection = <<>> /\ pl_section = <<>> /\ pl_done = {} /\ pl_pc = "idle"

IdleMap ==
    /\ map_posts = <<>> /\ map_top_n = 0 /\ map_gen = None /\ map_selection = <<>>
    /\ map_calls = <<>> /\ map_sections = <<>> /\ map_report = <<>> /\ map_pc = "idle"

(***************************************************************************)
(* classify.py: the taxonomy.                                              *)
(***************************************************************************)
CATEGORIES ==
    << "Geopolitics & Security",
       "Economics & Markets",
       "AI & Technology",
       "Health & Science",
       "Sports & Performance",
       "Society & Culture" >>

(***************************************************************************)
(* classify.py: select_top_per_category.                                   *)
(*                                                                         *)
(* A post dict is a record; `id` is the position of the dict in the input  *)
(* list and stands for the identity of the Python object.                  *)
(***************************************************************************)

\* The category labels the caller may have put on a post: taxonomy members, a
\* string that is no taxonomy member, and no "category" key at all.
Labels == {CATEGORIES[1], CATEGORIES[2], CATEGORIES[6], "totally unknown", None}

\* The engagement values of the posts (the counts of the end-to-end example).
Engagements == {0, 3000, 8554}

\* grouped = {cat: [] for cat in CATEGORIES}
EmptyGroups == [cat \in Range(CATEGORIES) |-> <<>>]

\* A grouping that files a post with an unrecognised label under the first category.
RECURSIVE GroupPostsDefault(_, _)
GroupPostsDefault(ps, grouped) ==
    IF ps = <<>> THEN grouped
    ELSE LET post == Head(ps)
             cat  == IF post.category \in DOMAIN grouped THEN post.category
                     ELSE CATEGORIES[1]
         IN  GroupPostsDefault(Tail(ps), [grouped EXCEPT ![cat] = Append(@, post)])

\* for post in posts: cat = post.get("category");
\*     if cat not in grouped: continue;  grouped[cat].append(post)
RECURSIVE GroupPosts(_, _)
GroupPosts(ps, grouped) ==
    IF ps = <<>> THEN grouped
    ELSE LET post == Head(ps)
             cat  == post.category
         IN  IF cat \notin DOMAIN grouped
             THEN GroupPosts(Tail(ps), grouped)
             ELSE GroupPosts(Tail(ps),
                             [grouped EXCEPT ![cat] = Append(@, post)])

\* An insertion that puts p in front of the elements of equal engagement.
InsertUnstable(s, p) ==
    LET k == Cardinality({i \in 1..Len(s) : s[i].engagement > p.engagement})
    IN  SubSeq(s, 1, k) \o <<p>> \o SubSeq(s, k + 1, Len(s))

\* One step of a stable sort by descending key: p goes behind every element whose
\* engagement is at least its own (s is already in descending order).
InsertDesc(s, p) ==
    LET k == Cardinality({i \in 1..Len(s) : s[i].engagement >= p.engagement})
    IN  SubSeq(s, 1, k) \o <<p>> \o SubSeq(s, k + 1, Len(s))

\* sorted(posts_in_cat, key=lambda p: p["engagement"], reverse=True): Python's sort
\* is stable, and reverse=True keeps the input order of equal keys.
RECURSIVE SortedDesc(_)
SortedDesc(s) ==
    IF s = <<>> THEN <<>>
    ELSE InsertDesc(SortedDesc(SubSeq(s, 1, Len(s) - 1)), s[Len(s)])

\* A slice that is one element too long.
TakeOneMore(s, n) == SubSeq(s, 1, Min(n + 1, Len(s)))

\* The slice s[:n] for n >= 0.
Take(s, n) == SubSeq(s, 1, Min(n, Len(s)))

\* The dict comprehension over grouped.items(), in insertion (taxonomy) order:
\* {cat: sorted(...)[:top_n] for cat, posts_in_cat in grouped.items() if posts_in_cat}
RECURSIVE SelectItems(_, _, _)
SelectItems(cats, grouped, n) ==
    IF cats = <<>> THEN <<>>
    ELSE LET cat == Head(cats)
             posts_in_cat == grouped[cat]
             rest == SelectItems(Tail(cats), grouped, n)
         IN  IF posts_in_cat # <<>>
             THEN <<[cat |-> cat, posts |-> Take(SortedDesc(posts_in_cat), n)]>> \o rest
             ELSE rest

select_top_per_category(ps, n) ==
    SelectItems(CATEGORIES, GroupPosts(ps, EmptyGroups), n)

PostDicts(len) ==
    { [i \in 1..len |-> [id |-> i, engagement |-> f[i][1], category |-> f[i][2]]] :
        f \in [1..len -> Engagements \X Labels] }

InitSelect ==
    /\ \E len \in 0..MaxPosts : posts \in PostDicts(len)
    /\ top_n \in 0..MaxTopN
    /\ by_category = <<>>
    /\ sel_pc = "call"

SelectTopPerCategory ==
    /\ sel_pc = "call"
    /\ by_category' = select_top_per_category(posts, top_n)
    /\ sel_pc' = "done"
    /\ UNCHANGED <<posts, top_n>>
    /\ UNCHANGED <<clsVars, parseVars, secVars, embVars, repVars, pubVars, scoreVars, pipeVars, mapVars>>

NextSelect == SelectTopPerCategory

StartSelect == InitSelect /\ IdleClassify /\ IdleParse /\ IdleSection /\ IdleEmbed /\ IdleReport /\ IdlePublic /\ IdleScoring /\ IdlePipeline /\ IdleMap

SpecSelect == StartSelect /\ [][NextSelect]_vars

(***************************************************************************)
(* Claims about select_top_per_category (checked under SpecSelect).        *)
(***************************************************************************)

\* The positions in the input list of the posts labelled cat.
Labelled(cat) == {i \in 1..Len(posts) : posts[i].category = cat}

\* The positions in the input list of the posts selected in item k.
SelectedIds(k) == {by_category[k].posts[j].id : j \in 1..Len(by_category[k].posts)}

\* C1: for every list of posts and every top_n >= 0, each sequence of the returned
\* map has at most top_n posts.
C1_AtMostTopN ==
    sel_pc = "done" =>
        \A k \in 1..Len(by_category) : Len(by_category[k].posts) <= top_n

\* C1 witness: a category with more labelled posts than top_n >= 1 was cut to top_n.
C1_Witness ==
    /\ sel_pc = "done"
    /\ top_n >= 1
    /\ \E k \in 1..Len(by_category) :
          /\ Cardinality(Labelled(by_category[k].cat)) > top_n
          /\ Len(by_category[k].posts) = top_n

\* C2 (as claimed): for every top_n >= 0, top_n = 0 included, no key of the returned
\* map maps to an empty sequence.
C2_NoEmptySequence ==
    sel_pc = "done" =>
        \A k \in 1..Len(by_category) : by_category[k].posts # <<>>

\* C3: each sequence of the returned map is the first top_n elements of the stable
\* descending-by-engagement sort of the input posts with that label: its length is
\* min(top_n, number of labelled posts), it is in non-increasing engagement order,
\* equal engagements keep their input order, and every omitted post of the category
\* has no greater engagement than any selected one (and, at equal engagement, comes
\* later in the input).
C3_StableTopN ==
    sel_pc = "done" =>
        \A k \in 1..Len(by_category) :
            LET cat == by_category[k].cat
                s   == by_category[k].posts
            IN  /\ Len(s) = Min(top_n, Cardinality(Labelled(cat)))
                /\ \A j \in 1..Len(s) : s[j].id \in Labelled(cat) /\ s[j] = posts[s[j].id]
                /\ \A j \in 1..(Len(s) - 1) :
                      \/ s[j].engagement > s[j + 1].engagement
                      \/ /\ s[j].engagement = s[j + 1].engagement
                         /\ s[j].id < s[j + 1].id
                /\ \A i \in Labelled(cat) \ SelectedIds(k) :
                      \A j \in 1..Len(s) :
                          \/ posts[i].engagement < s[j].engagement
                          \/ /\ posts[i].engagement = s[j].engagement
                             /\ s[j].id < i

\* C3 witness: top_n = 1, one category holds a 3000 post listed before an 8554 post,
\* and exactly the 8554 post is selected.
C3_Witness ==
    /\ sel_pc = "done"
    /\ top_n = 1
    /\ \E k \in 1..Len(by_category) :
          /\ \E a, b \in Labelled(by_category[k].cat) :
                a < b /\ posts[a].engagement = 3000 /\ posts[b].engagement = 8554
          /\ Len(by_category[k].posts) = 1
          /\ by_category[k].posts[1].engagement = 8554

\* C4: every post listed under key K has category K, every key is a taxonomy member
\* (and occurs once), no input post is listed twice or under two keys, and a post
\* whose category is absent or no taxonomy member is listed under no key.
C4_KeysMatchCategories ==
    sel_pc = "done" =>
        /\ \A k \in 1..Len(by_category) :
              /\ by_category[k].cat \in Range(CATEGORIES)
              /\ \A j \in 1..Len(by_category[k].posts) :
                    LET p == by_category[k].posts[j]
                    IN  /\ p.id \in 1..Len(posts)
                        /\ p = posts[p.id]
                        /\ p.category = by_category[k].cat
              /\ Cardinality(SelectedIds(k)) = Len(by_category[k].posts)
        /\ \A k1, k2 \in 1..Len(by_category) :
              k1 # k2 => /\ by_category[k1].cat # by_category[k2].cat
                         /\ SelectedIds(k1) \cap SelectedIds(k2) = {}
        /\ \A i \in 1..Len(posts) :
              posts[i].category \notin Range(CATEGORIES) =>
                  \A k \in 1..Len(by_category) : i \notin SelectedIds(k)

\* C4 witness: the input holds a post without category, a post with an unknown
\* category and a post of the taxonomy, and the call returned a non-empty map.
C4_Witness ==
    /\ sel_pc = "done"
    /\ \E i \in 1..Len(posts) : posts[i].category = None
    /\ \E i \in 1..Len(posts) : posts[i].category = "totally unknown"
    /\ by_category # <<>>
    /\ top_n >= 1

(***************************************************************************)
(* Text: a Python str is a sequence of characters.                         *)
(***************************************************************************)
UpperAZ ==
    <<"A", "B", "C", "D", "E", "F", "G", "H", "I", "J", "K", "L", "M",
      "N", "O", "P", "Q", "R", "S", "T", "U", "V", "W", "X", "Y", "Z">>

LowerAZ ==
    <<"a", "b", "c", "d", "e", "f", "g", "h", "i", "j", "k", "l", "m",
      "n", "o", "p", "q", "r", "s", "t", "u", "v", "w", "x", "y", "z">>

DigitChars == <<"0", "1", "2", "3", "4", "5", "6", "7", "8", "9">>

\* The characters str.strip() and the pattern \s remove.
Whitespace == {" ", "\t", "\n", "\r"}

LowerChar(c) ==
    IF \E i \in 1..Len(UpperAZ) : UpperAZ[i] = c
    THEN LowerAZ[CHOOSE i \in 1..Len(UpperAZ) : UpperAZ[i] = c]
    ELSE c

\* str.lower()
Lower(s) == [i \in 1..Len(s) |-> LowerChar(s[i])]

\* The pattern \d
IsDigit(c) == \E i \in 1..Len(DigitChars) : DigitChars[i] = c

DigitValue(c) == (CHOOSE i \in 1..Len(DigitChars) : DigitChars[i] = c) - 1

\* int() of a non-empty string of digits
RECURSIVE int(_)
int(digits) ==
    IF digits = <<>> THEN 0
    ELSE int(SubSeq(digits, 1, Len(digits) - 1)) * 10 + DigitValue(digits[Len(digits)])

\* The length of the longest prefix of s whose characters are all in set.
PrefixIn(s, set) ==
    CHOOSE k \in 0..Len(s) :
        /\ \A j \in 1..k : s[j] \in set
        /\ k < Len(s) => s[k + 1] \notin set

\* The length of the longest suffix of s whose characters are all in set.
SuffixIn(s, set) ==
    CHOOSE k \in 0..Len(s) :
        /\ \A j \in (Len(s) - k + 1)..Len(s) : s[j] \in set
        /\ k < Len(s) => s[Len(s) - k] \notin set

\* str.lstrip(), str.rstrip(), str.strip()
LStrip(s) == SubSeq(s, PrefixIn(s, Whitespace) + 1, Len(s))

RStrip(s) == SubSeq(s, 1, Len(s) - SuffixIn(s, Whitespace))

Strip(s) == RStrip(LStrip(s))

\* needle in hay, for two str
In(needle, hay) ==
    \E i \in 0..(Len(hay) - Len(needle)) : SubSeq(hay, i + 1, i + Len(needle)) = needle

\* str.splitlines() (the texts of the model hold no line boundary but "\n")
RECURSIVE SplitLines(_)
SplitLines(s) ==
    IF s = <<>> THEN <<>>
    ELSE LET k == PrefixIn(s, {c \in Range(s) : c # "\n"})
         IN  <<SubSeq(s, 1, k)>> \o SplitLines(SubSeq(s, k + 2, Len(s)))

\* "\n".join(lines)
RECURSIVE JoinLines(_)
JoinLines(lines) ==
    IF lines = <<>> THEN <<>>
    ELSE IF Len(lines) = 1 THEN lines[1]
    ELSE lines[1] \o <<"\n">> \o JoinLines(Tail(lines))

\* str.split(): the maximal runs of non-whitespace characters
RECURSIVE Split(_)
Split(s) ==
    LET t == LStrip(s)
    IN  IF t = <<>> THEN <<>>
        ELSE LET k == PrefixIn(t, {c \in Range(t) : c \notin Whitespace})
             IN  <<SubSeq(t, 1, k)>> \o Split(SubSeq(t, k + 1, Len(t)))

(***************************************************************************)
(* classify.py: _match_category, classify_post, classify_batch.            *)
(***************************************************************************)

\* The characters of the taxonomy names, in the order of CATEGORIES.
CategoryChars ==
    << <<"G", "e", "o", "p", "o", "l", "i", "t", "i", "c", "s", " ", "&", " ", "S", "e", "c", "u", "r", "i", "t", "y">>,
       <<"E", "c", "o", "n", "o", "m", "i", "c", "s", " ", "&", " ", "M", "a", "r", "k", "e", "t", "s">>,
       <<"A", "I", " ", "&", " ", "T", "e", "c", "h", "n", "o", "l", "o", "g", "y">>,
       <<"H", "e", "a", "l", "t", "h", " ", "&", " ", "S", "c", "i", "e", "n", "c", "e">>,
       <<"S", "p", "o", "r", "t", "s", " ", "&", " ", "P", "e", "r", "f", "o", "r", "m", "a", "n", "c", "e">>,
       <<"S", "o", "c", "i", "e", "t", "y", " ", "&", " ", "C", "u", "l", "t", "u", "r", "e">> >>

\* The characters of a category name.
Chars(cat) == CategoryChars[CHOOSE i \in 1..Len(CATEGORIES) : CATEGORIES[i] = cat]

\* for cat in CATEGORIES: if cat.lower() in raw_cat: return cat
RECURSIVE ExactMatch(_, _)
ExactMatch(cats, raw_cat) ==
    IF cats = <<>> THEN None
    ELSE IF In(Lower(Chars(Head(cats))), raw_cat) THEN Head(cats)
    ELSE ExactMatch(Tail(cats), raw_cat)

\* words = [w for w in cat.lower().split() if w not in ("&", "and")]
Words(cat) ==
    SelectSeq(Split(Lower(Chars(cat))),
              LAMBDA w : w \notin {<<"&">>, <<"a", "n", "d">>})

\* for cat in CATEGORIES: if any(w in raw_cat for w in words): return cat
RECURSIVE KeywordMatch(_, _)
KeywordMatch(cats, raw_cat) ==
    IF cats = <<>> THEN None
    ELSE IF \E w \in Range(Words(Head(cats))) : In(w, raw_cat) THEN Head(cats)
    ELSE KeywordMatch(Tail(cats), raw_cat)

\* A matcher that tries the keywords only.
MatchKeywordsOnly(raw_cat) == KeywordMatch(CATEGORIES, Lower(raw_cat))

_match_category(raw_cat) ==
    LET raw   == Lower(raw_cat)
        exact == ExactMatch(CATEGORIES, raw)
    IN  IF exact # None THEN exact ELSE KeywordMatch(CATEGORIES, raw)

\* classify_post, given the text call_fn(prompt) returns
classify_post(reply) == _match_category(Lower(Strip(reply)))

\* re.search(r"^(\d+)[.)]\s*(.*)", line): the digits, one of "." and ")", blanks,
\* and the rest of the line.
NumberedLine(line) ==
    LET k == PrefixIn(line, Range(DigitChars))
    IN  IF k >= 1 /\ k < Len(line) /\ line[k + 1] \in {".", ")"}
        THEN [matched |-> TRUE,
              group1  |-> SubSeq(line, 1, k),
              group2  |-> LStrip(SubSeq(line, k + 2, Len(line)))]
        ELSE [matched |-> FALSE, group1 |-> <<>>, group2 |-> <<>>]

\* An index that forgets the lines are numbered from 1.
BatchIndexFromZero(group1) == int(group1)

\* idx = int(match.group(1)) - 1
BatchIndex(group1) == int(group1) - 1

\* A range test without its upper half.
InRangeLowerOnly(idx, n) == 0 <= idx

\* if 0 <= idx < len(texts)
InRange(idx, n) == 0 <= idx /\ idx < n

\* A store that keeps an entry an earlier line has already decided.
ListStoreUnlessSet(list, idx, value) ==
    IF idx >= Len(list) \/ idx < 0 - Len(list)
    THEN [raised |-> TRUE, list |-> list]
    ELSE IF idx >= 0
    THEN [raised |-> FALSE,
          list |-> IF list[idx + 1] # None THEN list
                   ELSE [list EXCEPT ![idx + 1] = value]]
    ELSE [raised |-> FALSE, list |-> [list EXCEPT ![Len(list) + idx + 1] = value]]

\* results[idx] = value on a Python list: a negative index counts from the end, an
\* index outside -len..len-1 raises IndexError.
ListStore(list, idx, value) ==
    IF idx >= Len(list) \/ idx < 0 - Len(list)
    THEN [raised |-> TRUE, list |-> list]
    ELSE IF idx >= 0
    THEN [raised |-> FALSE, list |-> [list EXCEPT ![idx + 1] = value]]
    ELSE [raised |-> FALSE, list |-> [list EXCEPT ![Len(list) + idx + 1] = value]]

\* The loop over the reply lines; `acc` is results, or the raised exception.
RECURSIVE ParseReply(_, _, _)
ParseReply(lines, n, acc) ==
    IF lines = <<>> \/ acc.raised THEN acc
    ELSE LET match == NumberedLine(Strip(Head(lines)))
         IN  IF ~match.matched THEN ParseReply(Tail(lines), n, acc)
             ELSE LET idx == BatchIndex(match.group1)
                  IN  IF InRange(idx, n)
                      THEN ParseReply(Tail(lines), n,
                               ListStore(acc.list, idx,
                                         _match_category(Strip(match.group2))))
                      ELSE ParseReply(Tail(lines), n, acc)

\* classify_batch, given the text call_fn(prompt) returns (texts is not empty)
classify_batch(txts, reply) ==
    ParseReply(SplitLines(Lower(Strip(reply))), Len(txts),
               [raised |-> FALSE, list |-> [i \in 1..Len(txts) |-> None]])

\* Lines a generator may answer with.
ReplyLines ==
    {
      \* '1. Geopolitics & Security': the reply of test_classify_batch_success, line 1
      <<"1", ".", " ", "G", "e", "o", "p", "o", "l", "i", "t", "i", "c", "s", " ", "&", " ", "S", "e", "c", "u", "r", "i", "t", "y">>,
      \* '2. Economics & Markets': line 2 of the same reply
      <<"2", ".", " ", "E", "c", "o", "n", "o", "m", "i", "c", "s", " ", "&", " ", "M", "a", "r", "k", "e", "t", "s">>,
      \* '3. Unknown Category': line 3 of the same reply: in range, no category
      <<"3", ".", " ", "U", "n", "k", "n", "o", "w", "n", " ", "C", "a", "t", "e", "g", "o", "r", "y">>,
      \* '2) economics': a ")" separator and a keyword only
      <<"2", ")", " ", "e", "c", "o", "n", "o", "m", "i", "c", "s">>,
      \* '1. AI & Technology and security': the full name of a later category and a keyword of an earlier one
      <<"1", ".", " ", "A", "I", " ", "&", " ", "T", "e", "c", "h", "n", "o", "l", "o", "g", "y", " ", "a", "n", "d", " ", "s", "e", "c", "u", "r", "i", "t", "y">>,
      \* '3. science, sports': keywords of two categories
      <<"3", ".", " ", "s", "c", "i", "e", "n", "c", "e", ",", " ", "s", "p", "o", "r", "t", "s">>,
      \* '0. Health & Science': numbered 0
      <<"0", ".", " ", "H", "e", "a", "l", "t", "h", " ", "&", " ", "S", "c", "i", "e", "n", "c", "e">>,
      \* '12. Society & Culture': numbered beyond any batch
      <<"1", "2", ".", " ", "S", "o", "c", "i", "e", "t", "y", " ", "&", " ", "C", "u", "l", "t", "u", "r", "e">>,
      \* 'Sports & Performance': not numbered
      <<"S", "p", "o", "r", "t", "s", " ", "&", " ", "P", "e", "r", "f", "o", "r", "m", "a", "n", "c", "e">>,
      \* '  1.   Society & Culture  ': surrounded by blanks
      <<" ", " ", "1", ".", " ", " ", " ", "S", "o", "c", "i", "e", "t", "y", " ", "&", " ", "C", "u", "l", "t", "u", "r", "e", " ", " ">>,
      \* '1: Economics & Markets': a separator the pattern does not accept
      <<"1", ":", " ", "E", "c", "o", "n", "o", "m", "i", "c", "s", " ", "&", " ", "M", "a", "r", "k", "e", "t", "s">>,
      \* '': an empty line
      <<>>
    }

\* The replies of the model: up to MaxLines of these lines.
Replies == UNION {[1..k -> ReplyLines] : k \in 0..MaxLines}

InitClassify ==
    /\ \E n \in 0..MaxTexts : texts = [i \in 1..n |-> i]
    /\ reply_lines \in Replies
    /\ response = <<>>
    /\ results = <<>>
    /\ post_result = None
    /\ gen_calls = 0
    /\ cls_pc = "call"

\* One call classify_batch(texts, call_fn), where call_fn answers reply_lines.
ClassifyBatch ==
    /\ cls_pc = "call"
    /\ IF texts = <<>>
       THEN /\ results' = <<>>
            /\ cls_pc' = "batch_done"
            /\ UNCHANGED <<response, gen_calls>>
       ELSE LET reply == JoinLines(reply_lines)
                out   == classify_batch(texts, reply)
            IN  /\ response' = reply
                /\ gen_calls' = gen_calls + 1
                /\ results' = out.list
                /\ cls_pc' = IF out.raised THEN "raised" ELSE "batch_done"
    /\ UNCHANGED <<texts, reply_lines, post_result>>
    /\ UNCHANGED <<selVars, parseVars, secVars, embVars, repVars, pubVars, scoreVars, pipeVars, mapVars>>

\* One call classify_post(text, call_fn), where call_fn answers reply_lines.
ClassifyPost ==
    /\ cls_pc = "call"
    /\ Len(texts) = 1
    /\ LET reply == JoinLines(reply_lines)
       IN  /\ response' = reply
           /\ post_result' = classify_post(reply)
    /\ gen_calls' = gen_calls + 1
    /\ cls_pc' = "post_done"
    /\ UNCHANGED <<texts, reply_lines, results>>
    /\ UNCHANGED <<selVars, parseVars, secVars, embVars, repVars, pubVars, scoreVars, pipeVars, mapVars>>

NextClassify == ClassifyBatch \/ ClassifyPost

StartClassify == InitClassify /\ IdleSelect /\ IdleParse /\ IdleSection /\ IdleEmbed /\ IdleReport /\ IdlePublic /\ IdleScoring /\ IdlePipeline /\ IdleMap

SpecClassify == StartClassify /\ [][NextClassify]_vars

(***************************************************************************)
(* Claims about classify_batch, classify_post and _match_category          *)
(* (checked under SpecClassify).                                           *)
(***************************************************************************)

\* needle occurs in hay at some position.
Occurs(needle, hay) ==
    \E i \in 1..Len(hay) :
        \A j \in 1..Len(needle) : i + j - 1 <= Len(hay) /\ hay[i + j - 1] = needle[j]

\* The lower-cased taxonomy names, and the tokens of each name other than "&" and
\* "and", written out.
LowerNames ==
    << <<"g", "e", "o", "p", "o", "l", "i", "t", "i", "c", "s", " ", "&", " ", "s", "e", "c", "u", "r", "i", "t", "y">>,
       <<"e", "c", "o", "n", "o", "m", "i", "c", "s", " ", "&", " ", "m", "a", "r", "k", "e", "t", "s">>,
       <<"a", "i", " ", "&", " ", "t", "e", "c", "h", "n", "o", "l", "o", "g", "y">>,
       <<"h", "e", "a", "l", "t", "h", " ", "&", " ", "s", "c", "i", "e", "n", "c", "e">>,
       <<"s", "p", "o", "r", "t", "s", " ", "&", " ", "p", "e", "r", "f", "o", "r", "m", "a", "n", "c", "e">>,
       <<"s", "o", "c", "i", "e", "t", "y", " ", "&", " ", "c", "u", "l", "t", "u", "r", "e">> >>

NameTokens ==
    << {<<"g", "e", "o", "p", "o", "l", "i", "t", "i", "c", "s">>, <<"s", "e", "c", "u", "r", "i", "t", "y">>},
       {<<"e", "c", "o", "n", "o", "m", "i", "c", "s">>, <<"m", "a", "r", "k", "e", "t", "s">>},
       {<<"a", "i">>, <<"t", "e", "c", "h", "n", "o", "l", "o", "g", "y">>},
       {<<"h", "e", "a", "l", "t", "h">>, <<"s", "c", "i", "e", "n", "c", "e">>},
       {<<"s", "p", "o", "r", "t", "s">>, <<"p", "e", "r", "f", "o", "r", "m", "a", "n", "c", "e">>},
       {<<"s", "o", "c", "i", "e", "t", "y">>, <<"c", "u", "l", "t", "u", "r", "e">>} >>

\* The categories whose full name, or one of whose tokens, occurs in the text.
NamedIn(text) == {i \in 1..Len(CATEGORIES) : Occurs(LowerNames[i], Lower(text))}

TokenIn(text) ==
    {i \in 1..Len(CATEGORIES) : \E w \in NameTokens[i] : Occurs(w, Lower(text))}

Least(S) == CHOOSE i \in S : \A j \in S : i <= j

Greatest(S) == CHOOSE i \in S : \A j \in S : j <= i

\* What the two-pass rule yields on a text.
TwoPass(text) ==
    IF NamedIn(text) # {} THEN CATEGORIES[Least(NamedIn(text))]
    ELSE IF TokenIn(text) # {} THEN CATEGORIES[Least(TokenIn(text))]
    ELSE None

\* The generator's line l, blanks around it ignored, is: digits that read m, then "."
\* or ")", then anything.
Numbered(l, m) ==
    LET t == Strip(l)
    IN  \E k \in 1..(Len(t) - 1) :
            /\ \A j \in 1..k : IsDigit(t[j])
            /\ t[k + 1] \in {".", ")"}
            /\ int(SubSeq(t, 1, k)) = m

\* What follows the separator of a numbered line.
AfterNumber(l) ==
    LET t == Strip(l)
        k == CHOOSE k \in 1..(Len(t) - 1) :
                 (\A j \in 1..k : IsDigit(t[j])) /\ t[k + 1] \in {".", ")"}
    IN  SubSeq(t, k + 2, Len(t))

\* The positions of the reply lines numbered m.
LinesNumbered(m) == {j \in 1..Len(reply_lines) : Numbered(reply_lines[j], m)}

\* C5: classify_batch returns one entry per input text; entry i is the category
\* matched, by the rule of classify_post, from the (last) reply line numbered i, and
\* None when no reply line is numbered i or that line matches no category; a line
\* numbered outside 1..len(texts) decides no entry.
C5_BatchEntries ==
    cls_pc = "batch_done" =>
        /\ Len(results) = Len(texts)
        /\ \A i \in 1..Len(texts) :
              IF LinesNumbered(i) = {}
              THEN results[i] = None
              ELSE results[i] =
                       classify_post(AfterNumber(reply_lines[Greatest(LinesNumbered(i))]))

\* C5 witness: of three texts the first got a category from its line, the second
\* got None for want of a line, and the reply also held a line numbered 0 or 12.
C5_Witness ==
    /\ cls_pc = "batch_done"
    /\ Len(texts) = 3
    /\ LinesNumbered(1) # {} /\ results[1] \in Range(CATEGORIES)
    /\ LinesNumbered(2) = {} /\ results[2] = None
    /\ LinesNumbered(0) \cup LinesNumbered(12) # {}

C7_TwoPassMatch ==
    cls_pc = "post_done" =>
        /\ post_result = TwoPass(response)
        /\ post_result \in Range(CATEGORIES) \cup {None}

\* C7 witness: the reply names a category in full and holds a token of an earlier
\* one, and the category named in full is the result.
C7_Witness ==
    /\ cls_pc = "post_done"
    /\ NamedIn(response) # {}
    /\ \E i \in TokenIn(response) : i < Least(NamedIn(response))
    /\ post_result = CATEGORIES[Least(NamedIn(response))]

(***************************************************************************)
(* classify.py: parse_posts_from_markdown and _process_post_block.         *)
(*                                                                         *)
(* The loop over markdown.splitlines() is modelled one iteration per step: *)
(* `markdown` holds the lines read so far, and the posts list after k      *)
(* steps is what the function returns on the digest made of these k lines. *)
(* The code points of the engagement marker are written "HEART" and        *)
(* "VS16"; "RT" and "DASH" stand for two further non-ASCII characters.     *)
(***************************************************************************)

\* '## @al' -- an author header
HeaderAl == <<"#", "#", " ", "@", "a", "l">>

\* '## [x] @bob DASH B' -- an author header with a platform tag and a display name
HeaderBob == <<"#", "#", " ", "[", "x", "]", " ", "@", "b", "o", "b", " ", "DASH", " ", "B">>

\* '> hi' -- a quoted line of post text
QuotedHi == <<">", " ", "h", "i">>

\* '>' -- the bare quote mark between text and engagement line
QuotedBare == <<">">>

\* '> HEART VS16 8,554  RT 7' -- an engagement line
Eng8554 == <<">", " ", "HEART", "VS16", " ", "8", ",", "5", "5", "4", " ", " ", "RT", " ", "7">>

\* '> HEART VS16 30' -- an engagement line with a smaller count
Eng30 == <<">", " ", "HEART", "VS16", " ", "3", "0">>

\* '> HEART VS16 ,' -- an engagement marker whose count holds no digit
EngCommas == <<">", " ", "HEART", "VS16", " ", ",">>

\* '> HEART 5' -- a quoted line that starts with the heart but is no marker
StrayHeart == <<">", " ", "HEART", " ", "5">>

\* '---' -- a line that is neither quoted nor a header
Rule == <<"-", "-", "-">>

\* The lines a digest of the model is made of.
DigestLines ==
    {HeaderAl, HeaderBob, QuotedHi, QuotedBare, Eng8554, Eng30, EngCommas, StrayHeart, Rule}

\* The longest run of characters of `set` in s from position i on: its length.
RunFrom(s, i, set) == PrefixIn(SubSeq(s, i, Len(s)), set)

NonSpace(s) == {c \in Range(s) : c \notin Whitespace}

NoMatch == [matched |-> FALSE, group1 |-> <<>>]

\* author_re.match(line), author_re = r"^## (?:\[.*?\] )?@(\S+)": group 1 is the
\* handle.  The optional tag is "[", the shortest text up to "] ", and the "@" must
\* follow at once.
AuthorMatch(line) ==
    LET handle(at) ==
            \* "@" at position `at`, then at least one non-blank character
            IF at < Len(line) /\ line[at] = "@" /\ RunFrom(line, at + 1, NonSpace(line)) >= 1
            THEN [matched |-> TRUE,
                  group1  |-> SubSeq(line, at + 1, at + RunFrom(line, at + 1, NonSpace(line)))]
            ELSE NoMatch
        closes == {j \in 5..(Len(line) - 1) :
                      line[j] = "]" /\ line[j + 1] = " " /\ handle(j + 2).matched}
    IN  IF Len(line) < 4 \/ SubSeq(line, 1, 3) # <<"#", "#", " ">> THEN NoMatch
        ELSE IF line[4] = "[" /\ closes # {}
        THEN handle((CHOOSE j \in closes : \A j2 \in closes : j <= j2) + 2)
        ELSE handle(4)

\* The characters of a count: [\d,]
CountChars == Range(DigitChars) \cup {","}

\* engagement_re.search(s), engagement_re = HEART VS16 \s*([\d,]+): the leftmost
\* marker that blanks and at least one digit or comma follow; group 1 is the count.
EngagementSearch(s) ==
    LET count(i) == i + 2 + RunFrom(s, i + 2, Whitespace)
        hits == {i \in 1..(Len(s) - 1) :
                    /\ s[i] = "HEART" /\ s[i + 1] = "VS16"
                    /\ RunFrom(s, count(i), CountChars) >= 1}
    IN  IF hits = {} THEN NoMatch
        ELSE LET i == CHOOSE i \in hits : \A i2 \in hits : i <= i2
             IN  [matched |-> TRUE,
                  group1 |-> SubSeq(s, count(i), count(i) + RunFrom(s, count(i), CountChars) - 1)]

\* line.startswith("> ") or line == ">"
IsQuotedLine(line) ==
    \/ (Len(line) >= 2 /\ line[1] = ">" /\ line[2] = " ")
    \/ line = <<">">>

\* line.lstrip("> ").strip()
QuoteBody(line) == Strip(SubSeq(line, PrefixIn(line, {">", " "}) + 1, Len(line)))

\* " ".join(items)
RECURSIVE JoinSpace(_)
JoinSpace(items) ==
    IF items = <<>> THEN <<>>
    ELSE IF Len(items) = 1 THEN items[1]
    ELSE items[1] \o <<" ">> \o JoinSpace(Tail(items))

\* " ".join(l for l in block
\*          if not engagement_re.search(l) and not l.startswith(HEART)).strip()
BlockText(block) ==
    Strip(JoinSpace(SelectSeq(block,
        LAMBDA l : ~EngagementSearch(l).matched /\ ~(l # <<>> /\ l[1] = "HEART"))))

NoPost == [text |-> <<>>, engagement |-> 0, author |-> <<>>]

\* A helper that emits a post whatever the author and the text are.
ProcessBlockUnchecked(block, author, engagement_match) ==
    LET digits == SelectSeq(engagement_match.group1, LAMBDA c : c # ",")
    IN  IF digits = <<>> THEN [raised |-> TRUE, emitted |-> FALSE, post |-> NoPost]
        ELSE [raised |-> FALSE, emitted |-> TRUE,
              post |-> [text |-> BlockText(block), engagement |-> int(digits),
                        author |-> author]]

\* _process_post_block: no post without author or block; int() of the count with its
\* commas removed raises ValueError when no digit is left; no post without text.
_process_post_block(block, author, engagement_match) ==
    IF author = <<>> \/ block = <<>>
    THEN [raised |-> FALSE, emitted |-> FALSE, post |-> NoPost]
    ELSE LET digits == SelectSeq(engagement_match.group1, LAMBDA c : c # ",")
             text   == BlockText(block)
         IN  IF digits = <<>>
             THEN [raised |-> TRUE, emitted |-> FALSE, post |-> NoPost]
             ELSE IF text # <<>>
             THEN [raised |-> FALSE, emitted |-> TRUE,
                   post |-> [text |-> text, engagement |-> int(digits), author |-> author]]
             ELSE [raised |-> FALSE, emitted |-> FALSE, post |-> NoPost]

\* A list that grows at its front.
PrependPost(list, post) == <<post>> \o list

\* posts.append(post)
AppendPost(list, post) == Append(list, post)

\* An author that is set by the first header only.
KeepFirstAuthor(author, group1) == IF author = <<>> THEN group1 ELSE author

\* current_author = author_match.group(1)
NewAuthor(author, group1) == group1

\* A buffer that survives a line which is neither quoted nor a header.
KeepBlock(block) == block

\* current_block.clear() in the else branch of the loop
ClearBlock(block) == <<>>

InitParse ==
    /\ markdown = <<>>
    /\ parsed = <<>>
    /\ emitted_at = <<>>
    /\ current_author = <<>>
    /\ current_block = <<>>
    /\ parse_pc = "scan"

\* One iteration of `for line in markdown.splitlines()`.
ParseLine(line) ==
    /\ parse_pc = "scan"
    /\ Len(markdown) < MaxDigest
    /\ markdown' = Append(markdown, line)
    /\ LET author_match == AuthorMatch(line)
       IN  IF author_match.matched
           THEN /\ current_author' = NewAuthor(current_author, author_match.group1)
                /\ current_block' = <<>>
                /\ UNCHANGED <<parsed, emitted_at, parse_pc>>
           ELSE IF IsQuotedLine(line)
           THEN LET block     == Append(current_block, QuoteBody(line))
                    eng_match == EngagementSearch(line)
                    out       == _process_post_block(block, current_author, eng_match)
                IN  IF ~eng_match.matched
                    THEN /\ current_block' = block
                         /\ UNCHANGED <<parsed, emitted_at, current_author, parse_pc>>
                    ELSE IF out.raised
                    THEN /\ parse_pc' = "raised"
                         /\ current_block' = block
                         /\ UNCHANGED <<parsed, emitted_at, current_author>>
                    ELSE /\ parsed' = IF out.emitted THEN AppendPost(parsed, out.post)
                                      ELSE parsed
                         /\ emitted_at' = IF out.emitted
                                          THEN Append(emitted_at, Len(markdown) + 1)
                                          ELSE emitted_at
                         /\ current_block' = <<>>
                         /\ UNCHANGED <<current_author, parse_pc>>
           ELSE /\ current_block' = ClearBlock(current_block)
                /\ UNCHANGED <<parsed, emitted_at, current_author, parse_pc>>
    /\ UNCHANGED <<selVars, clsVars, secVars, embVars, repVars, pubVars, scoreVars, pipeVars, mapVars>>

NextParse == \E line \in DigestLines : ParseLine(line)

StartParse == InitParse /\ IdleSelect /\ IdleClassify /\ IdleSection /\ IdleEmbed /\ IdleReport /\ IdlePublic /\ IdleScoring /\ IdlePipeline /\ IdleMap

SpecParse == StartParse /\ [][NextParse]_vars

(***************************************************************************)
(* Claims about parse_posts_from_markdown (checked under SpecParse).       *)
(* What each line of DigestLines is, is written out here, so that the      *)
(* patterns of the model are checked against it.                           *)
(***************************************************************************)

\* The author headers and their handles.
IsHeader(l) == l \in {HeaderAl, HeaderBob}

HandleOf(l) == IF l = HeaderAl THEN <<"a", "l">> ELSE <<"b", "o", "b">>

\* The quoted lines; those that carry the engagement marker; the well-formed counts.
IsQuoted(l) == l \in {QuotedHi, QuotedBare, Eng8554, Eng30, EngCommas, StrayHeart}

HasMarker(l) == l \in {Eng8554, Eng30, EngCommas}

CountOf(l) == IF l = Eng8554 THEN 8554 ELSE IF l = Eng30 THEN 30 ELSE -1

\* The position of the last author header before line e, 0 if there is none.
HeaderBefore(e) ==
    LET hs == {h \in 1..(e - 1) : IsHeader(markdown[h])}
    IN  IF hs = {} THEN 0 ELSE CHOOSE h \in hs : \A h2 \in hs : h2 <= h

\* The first line of the contiguous run of quoted lines without marker that ends
\* right before line e (e itself when that run is empty).
RunStart(e) ==
    CHOOSE b \in 1..e :
        /\ \A j \in b..(e - 1) : IsQuoted(markdown[j]) /\ ~HasMarker(markdown[j])
        /\ b > 1 => ~(IsQuoted(markdown[b - 1]) /\ ~HasMarker(markdown[b - 1]))

\* What a quoted line without marker contributes to the text of a post: a line of
\* text its words, the bare quote mark the empty string, a stray heart line nothing.
RECURSIVE RunPieces(_, _)
RunPieces(b, e) ==
    IF b >= e THEN <<>>
    ELSE LET l == markdown[b]
         IN  (IF l = QuotedHi THEN << <<"h", "i">> >>
              ELSE IF l = QuotedBare THEN << <<>> >>
              ELSE <<>>) \o RunPieces(b + 1, e)

\* The text of the run before line e: its pieces joined by blanks, then trimmed.
RunText(e) == Strip(JoinSpace(RunPieces(RunStart(e), e)))

\* The quoted marker lines read so far.
MarkerLines == {e \in 1..Len(markdown) : IsQuoted(markdown[e]) /\ HasMarker(markdown[e])}

\* C8: a post is emitted only at a quoted engagement-marker line, and only if an
\* author header precedes the line and the text built from the buffered lines is not
\* empty; a marker line before the first header, or one whose buffered text is empty,
\* emits nothing; without any quoted marker line the result is the empty list.
C8_EmitsOnlyWithAuthorAndText ==
    parse_pc = "scan" =>
        /\ Len(parsed) = Len(emitted_at)
        /\ \A k \in 1..Len(parsed) :
              /\ emitted_at[k] \in MarkerLines
              /\ HeaderBefore(emitted_at[k]) # 0
              /\ RunText(emitted_at[k]) # <<>>
              /\ parsed[k].author # <<>>
              /\ parsed[k].text # <<>>
        /\ \A e \in MarkerLines :
              (HeaderBefore(e) = 0 \/ RunText(e) = <<>>) => e \notin Range(emitted_at)
        /\ MarkerLines = {} => parsed = <<>>

\* C8 witness: one marker line came before the first header and one followed a
\* header without any text, neither emitted a post; a later one emitted a post.
C8_Witness ==
    /\ parse_pc = "scan"
    /\ Len(markdown) = 5
    /\ markdown[1] \in {Eng8554, Eng30}
    /\ IsHeader(markdown[2])
    /\ markdown[3] \in {Eng8554, Eng30}
    /\ markdown[4] = QuotedHi
    /\ markdown[5] \in {Eng8554, Eng30}
    /\ Len(parsed) = 1

\* C9: the posts are listed in the order of their engagement-marker lines, whatever
\* their engagement, and a quoted marker line emits at most one post.
C9_DocumentOrder ==
    parse_pc = "scan" =>
        /\ Len(parsed) = Len(emitted_at)
        /\ \A k \in 1..Len(parsed) :
              /\ emitted_at[k] \in MarkerLines
              /\ parsed[k].engagement = CountOf(markdown[emitted_at[k]])
        /\ \A k \in 1..(Len(emitted_at) - 1) : emitted_at[k] < emitted_at[k + 1]

\* C9 witness: two posts, the one with the smaller engagement first.
C9_Witness ==
    /\ parse_pc = "scan"
    /\ Len(parsed) = 2
    /\ parsed[1].engagement = 30
    /\ parsed[2].engagement = 8554

\* C10: a line that is neither quoted nor an author header empties the buffer: the
\* text of a post is built from the contiguous run of quoted lines right before its
\* marker line and from nothing else, and holds nothing of the marker line.
C10_TextFromLastRun ==
    parse_pc = "scan" =>
        /\ \A k \in 1..Len(parsed) :
              /\ parsed[k].text = RunText(emitted_at[k])
              /\ "HEART" \notin Range(parsed[k].text)
        /\ (markdown # <<>> /\ ~IsQuoted(markdown[Len(markdown)])) => current_block = <<>>

\* C10 witness: quoted text, then a line neither quoted nor header, then quoted
\* text again and the marker: the post holds the second text only.
C10_Witness ==
    /\ parse_pc = "scan"
    /\ Len(markdown) = 5
    /\ IsHeader(markdown[1])
    /\ markdown[2] = QuotedHi
    /\ markdown[3] = Rule
    /\ markdown[4] = QuotedHi
    /\ markdown[5] = Eng8554
    /\ Len(parsed) = 1
    /\ parsed[1].text = <<"h", "i">>

\* C11: every post carries the handle of the most recent author header before its
\* marker line; the current author is the handle of the last header read, whatever
\* posts or other lines followed it.
C11_AuthorIsLastHeader ==
    parse_pc = "scan" =>
        /\ \A k \in 1..Len(parsed) :
              /\ HeaderBefore(emitted_at[k]) # 0
              /\ parsed[k].author = HandleOf(markdown[HeaderBefore(emitted_at[k])])
        /\ current_author =
              IF HeaderBefore(Len(markdown) + 1) = 0 THEN <<>>
              ELSE HandleOf(markdown[HeaderBefore(Len(markdown) + 1)])

\* C11 witness: two headers, a line that is neither quoted nor header, then a post:
\* it carries the handle of the second header.
C11_Witness ==
    /\ parse_pc = "scan"
    /\ Len(markdown) = 5
    /\ markdown[1] = HeaderAl
    /\ markdown[2] = HeaderBob
    /\ markdown[3] = Rule
    /\ Len(parsed) = 1
    /\ emitted_at[1] = 5
    /\ parsed[1].author = <<"b", "o", "b">>

\* C12 (as claimed): parse_posts_from_markdown raises for no digest; a quoted marker
\* line under a known author whose count is no well-formed integer is skipped.
C12_ParseNeverRaises == parse_pc # "raised"

(***************************************************************************)
(* intel_report.py: generate_section.                                      *)
(***************************************************************************)

\* s[i..] starts with the text t.
StartsAt(s, i, t) == i + Len(t) - 1 <= Len(s) /\ SubSeq(s, i, i + Len(t) - 1) = t

\* The length of the match of https?://\S+ at position i of s, 0 if there is none.
UrlAt(s, i) ==
    LET scheme == IF StartsAt(s, i, <<"h", "t", "t", "p", "s", ":", "/", "/">>) THEN 8
                  ELSE IF StartsAt(s, i, <<"h", "t", "t", "p", ":", "/", "/">>) THEN 7
                  ELSE 0
        rest   == RunFrom(s, i + scheme, NonSpace(s))
    IN  IF scheme > 0 /\ rest >= 1 THEN scheme + rest ELSE 0

\* The length of the match of \(\s*\) at position i of s, 0 if there is none.
EmptyParensAt(s, i) ==
    LET blanks == RunFrom(s, i + 1, Whitespace)
    IN  IF i <= Len(s) /\ s[i] = "(" /\ i + 1 + blanks <= Len(s) /\ s[i + 1 + blanks] = ")"
        THEN blanks + 2 ELSE 0

\* The length of the match of \[\s*\]\(\s*\) at position i of s, 0 if there is none.
EmptyLinkAt(s, i) ==
    LET blanks == RunFrom(s, i + 1, Whitespace)
        close  == i + 1 + blanks
    IN  IF i <= Len(s) /\ s[i] = "[" /\ close <= Len(s) /\ s[close] = "]"
           /\ EmptyParensAt(s, close + 1) > 0
        THEN blanks + 2 + EmptyParensAt(s, close + 1) ELSE 0

\* The length of the match of one of the three patterns at position i of s.
MatchAt(pattern, s, i) ==
    CASE pattern = "url"         -> UrlAt(s, i)
      [] pattern = "empty_parens" -> EmptyParensAt(s, i)
      [] pattern = "empty_link"   -> EmptyLinkAt(s, i)

\* re.sub(pattern, "", s): the matches are found from left to right, none overlapping
\* another, and deleted.
RECURSIVE DeleteMatches(_, _, _)
DeleteMatches(pattern, s, i) ==
    IF i > Len(s) THEN <<>>
    ELSE IF MatchAt(pattern, s, i) > 0
         THEN DeleteMatches(pattern, s, i + MatchAt(pattern, s, i))
         ELSE <<s[i]>> \o DeleteMatches(pattern, s, i + 1)

\* re.sub(r"https?://\S+", "", s)
StripUrls(s) == DeleteMatches("url", s, 1)

\* re.sub(r"\(\s*\)", "", s)
StripEmptyParens(s) == DeleteMatches("empty_parens", s, 1)

\* re.sub(r"\[\s*\]\(\s*\)", "", s)
StripEmptyLinks(s) == DeleteMatches("empty_link", s, 1)

\* "\n".join(line.rstrip() for line in s.splitlines())
RStripLines(s) ==
    LET lines == SplitLines(s)
    IN  JoinLines([k \in 1..Len(lines) |-> RStrip(lines[k])])

\* "**{category}**\n"
Heading(category) == <<"*", "*">> \o Chars(category) \o <<"*", "*", "\n">>

\* The text dropped of its first line when that line repeats the category name.
DropEchoedHeading(category, section_text) ==
    LET lines      == SplitLines(section_text)
        first_line == IF section_text # <<>> THEN Strip(lines[1]) ELSE <<>>
    IN  IF In(Lower(Chars(category)), Lower(first_line))
        THEN Strip(JoinLines(SubSeq(lines, 2, Len(lines))))
        ELSE section_text

\* The post-processing of the generator's reply, lines 151-163.
Sanitize(category, reply) ==
    RStripLines(StripEmptyLinks(StripEmptyParens(StripUrls(
        DropEchoedHeading(category, Strip(reply))))))

\* "No significant developments identified."
Placeholder ==
    <<"N", "o", " ", "s", "i", "g", "n", "i", "f", "i", "c", "a", "n", "t", " ", "d", "e", "v", "e", "l", "o", "p", "m", "e", "n", "t", "s", " ", "i", "d", "e", "n", "t", "i", "f", "i", "e", "d", ".">>

\* A section generator that asks the backend even for an empty list.
GenerateSectionAlways(category, section_posts, reply) ==
    [text  |-> Heading(category) \o Sanitize(category, reply) \o <<"\n">>,
     calls |-> 1]

\* generate_section(category, posts), where _generate_ollama answers `reply`: the
\* section text and the number of backend calls made.
generate_section(category, section_posts, reply) ==
    IF section_posts = <<>>
    THEN [text  |-> Heading(category) \o Placeholder \o <<"\n">>,
          calls |-> 0]
    ELSE [text  |-> Heading(category) \o Sanitize(category, reply) \o <<"\n">>,
          calls |-> 1]

\* Pieces a generator's reply is made of.
ReplyPieces ==
    {
      \* a bullet
      <<"-", " ", "a">>,
      \* a blank
      <<" ">>,
      \* a line break
      <<"\n">>,
      \* the scheme alone
      <<"h", "t", "t", "p">>,
      \* the rest of a link
      <<":", "/", "/", "x", ".", "c", "o">>,
      \* a whole link
      <<"h", "t", "t", "p", "s", ":", "/", "/", "e", ".", "c", "o", "m">>,
      \* empty parentheses
      <<"(", ")">>,
      \* an opening parenthesis and a blank
      <<"(", " ">>,
      \* a closing parenthesis
      <<")">>,
      \* empty brackets
      <<"[", "]">>,
      \* the category name, echoed
      <<"A", "I", " ", "&", " ", "T", "e", "c", "h", "n", "o", "l", "o", "g", "y">>,
      \* bold marks
      <<"*", "*">>
    }

RECURSIVE Concat(_)
Concat(pieces) == IF pieces = <<>> THEN <<>> ELSE Head(pieces) \o Concat(Tail(pieces))

\* The replies of the model: up to MaxPieces pieces, one after the other.
SectionReplies == {Concat(p) : p \in UNION {[1..k -> ReplyPieces] : k \in 0..MaxPieces}}

\* The posts handed to generate_section: none, or one post.
SectionPosts ==
    {<<>>, <<[id |-> 1, engagement |-> 8554, category |-> CATEGORIES[3]]>>}

InitSection ==
    /\ sec_category \in {CATEGORIES[1], CATEGORIES[3]}
    /\ sec_posts \in SectionPosts
    /\ sec_reply \in SectionReplies
    /\ section = <<>>
    /\ sec_calls = 0
    /\ sec_pc = "call"

\* One call generate_section(sec_category, sec_posts).
GenerateSection ==
    /\ sec_pc = "call"
    /\ LET out == generate_section(sec_category, sec_posts, sec_reply)
       IN  /\ section' = out.text
           /\ sec_calls' = sec_calls + out.calls
    /\ sec_pc' = "done"
    /\ UNCHANGED <<sec_category, sec_posts, sec_reply>>
    /\ UNCHANGED <<selVars, clsVars, parseVars, embVars, repVars, pubVars, scoreVars, pipeVars, mapVars>>

NextSection == GenerateSection

StartSection == InitSection /\ IdleSelect /\ IdleClassify /\ IdleParse /\ IdleEmbed /\ IdleReport /\ IdlePublic /\ IdleScoring /\ IdlePipeline /\ IdleMap

SpecSection == StartSection /\ [][NextSection]_vars

(***************************************************************************)
(* Claims about generate_section (checked under SpecSection).              *)
(***************************************************************************)

\* The heading of each category and the placeholder section, written out.
HeadingText(category) ==
    CASE category = CATEGORIES[1] ->
           <<"*", "*", "G", "e", "o", "p", "o", "l", "i", "t", "i", "c", "s", " ", "&", " ", "S", "e", "c", "u", "r", "i", "t", "y", "*", "*", "\n">>
      [] category = CATEGORIES[2] ->
           <<"*", "*", "E", "c", "o", "n", "o", "m", "i", "c", "s", " ", "&", " ", "M", "a", "r", "k", "e", "t", "s", "*", "*", "\n">>
      [] category = CATEGORIES[3] ->
           <<"*", "*", "A", "I", " ", "&", " ", "T", "e", "c", "h", "n", "o", "l", "o", "g", "y", "*", "*", "\n">>
      [] category = CATEGORIES[4] ->
           <<"*", "*", "H", "e", "a", "l", "t", "h", " ", "&", " ", "S", "c", "i", "e", "n", "c", "e", "*", "*", "\n">>
      [] category = CATEGORIES[5] ->
           <<"*", "*", "S", "p", "o", "r", "t", "s", " ", "&", " ", "P", "e", "r", "f", "o", "r", "m", "a", "n", "c", "e", "*", "*", "\n">>
      [] category = CATEGORIES[6] ->
           <<"*", "*", "S", "o", "c", "i", "e", "t", "y", " ", "&", " ", "C", "u", "l", "t", "u", "r", "e", "*", "*", "\n">>

PlaceholderLine ==
    <<"N", "o", " ", "s", "i", "g", "n", "i", "f", "i", "c", "a", "n", "t", " ", "d", "e", "v", "e", "l", "o", "p", "m", "e", "n", "t", "s", " ", "i", "d", "e", "n", "t", "i", "f", "i", "e", "d", ".", "\n">>

\* C13: for an empty post list generate_section returns the category heading and the
\* line "No significant developments identified." and calls the backend zero times;
\* for a non-empty list it calls the backend exactly once and its result begins with
\* the category heading.
C13_PlaceholderWithoutCall ==
    sec_pc = "done" =>
        IF sec_posts = <<>>
        THEN /\ section = HeadingText(sec_category) \o PlaceholderLine
             /\ sec_calls = 0
        ELSE /\ sec_calls = 1
             /\ Len(section) >= Len(HeadingText(sec_category))
             /\ SubSeq(section, 1, Len(HeadingText(sec_category))) = HeadingText(sec_category)

\* C13 witness: a call with no posts returned while the backend had a reply ready.
C13_Witness ==
    /\ sec_pc = "done"
    /\ sec_posts = <<>>
    /\ sec_reply # <<>>
    /\ sec_calls = 0

\* A link-shaped text starts at position i: "http://" or "https://" and a character
\* that is no blank.
LinkAt(s, i) ==
    \E scheme \in {<<"h", "t", "t", "p", ":", "/", "/">>,
                   <<"h", "t", "t", "p", "s", ":", "/", "/">>} :
        /\ i + Len(scheme) <= Len(s)
        /\ \A j \in 1..Len(scheme) : s[i + j - 1] = scheme[j]
        /\ s[i + Len(scheme)] \notin Whitespace

\* C14 (as claimed): whatever the generator replies, the text generate_section
\* returns for a non-empty post list holds no link-shaped substring.
C14_NoLinkInSection ==
    (sec_pc = "done" /\ sec_posts # <<>>) =>
        \A i \in 1..Len(section) : ~LinkAt(section, i)

(***************************************************************************)
(* classify_embeddings.py: classify_posts_embedding.                       *)
(***************************************************************************)

\* What a get_embedding call does: it raises, or it returns a vector.
Fail == [ok |-> FALSE, vec |-> <<>>]
Returns(v) == [ok |-> TRUE, vec |-> v]

RECURSIVE Dot(_, _)
\* np.dot(va, vb)
Dot(a, b) == IF a = <<>> THEN 0 ELSE Head(a) * Head(b) + Dot(Tail(a), Tail(b))

\* The square of np.linalg.norm(v).
NormSq(v) == Dot(v, v)

\* cosine_similarity(a, b): the value num / sqrt(den2), kept as the pair so that two
\* similarities are compared exactly; 0.0 when one of the norms is zero.
cosine_similarity(a, b) ==
    IF NormSq(a) = 0 \/ NormSq(b) = 0
    THEN [num |-> 0, den2 |-> 1]
    ELSE [num |-> Dot(a, b), den2 |-> NormSq(a) * NormSq(b)]

\* x > y for two similarities.
Greater(x, y) ==
    IF x.num >= 0 /\ y.num < 0 THEN TRUE
    ELSE IF x.num < 0 /\ y.num >= 0 THEN FALSE
    ELSE IF x.num >= 0 THEN x.num * x.num * y.den2 > y.num * y.num * x.den2
    ELSE x.num * x.num * y.den2 < y.num * y.num * x.den2

\* A max() that keeps the later of two candidates of equal key.
ReplacesBestOnTie(candidate, best) == ~Greater(best, candidate)

\* max() replaces its best element only by one of a strictly greater key.
ReplacesBest(candidate, best) == Greater(candidate, best)

RECURSIVE MaxFrom(_, _, _, _)
\* max(category_embeddings.keys(), key=...): the scan of the entries from k on,
\* `best` being the index of the best entry so far.
MaxFrom(category_embeddings, post_vec, k, best) ==
    IF k > Len(category_embeddings) THEN category_embeddings[best].cat
    ELSE IF ReplacesBest(cosine_similarity(post_vec, category_embeddings[k].vec),
                         cosine_similarity(post_vec, category_embeddings[best].vec))
         THEN MaxFrom(category_embeddings, post_vec, k + 1, k)
         ELSE MaxFrom(category_embeddings, post_vec, k + 1, best)

\* best_cat of lines 143-146.
BestCategory(category_embeddings, post_vec) ==
    MaxFrom(category_embeddings, post_vec, 2, 1)

\* An anchor loop that stores a zero vector for an anchor that failed.
StoreAnchorOrZero(category_embeddings, cat, outcome) ==
    Append(category_embeddings,
           [cat |-> cat, vec |-> IF outcome = Fail THEN <<0, 0>> ELSE outcome.vec])

\* One pass of the anchor loop: the entry is stored unless get_embedding raised.
StoreAnchor(category_embeddings, cat, outcome) ==
    IF outcome = Fail THEN category_embeddings
    ELSE Append(category_embeddings, [cat |-> cat, vec |-> outcome.vec])

RECURSIVE EmbedAnchors(_, _)
\* The mapping category_embeddings after the first k passes of the anchor loop, as
\* the sequence of its entries in insertion order.
EmbedAnchors(outcomes, k) ==
    IF k = 0 THEN <<>>
    ELSE StoreAnchor(EmbedAnchors(outcomes, k - 1), CATEGORIES[k], outcomes[k])

\* A loop that counts a post whose embedding failed as classified.
CountFailedPost(before) ==
    [before EXCEPT !.calls = @ + 1, !.classified = @ + 1]

\* get_embedding raised for a post: `continue`, the post is left as it was.
SkipFailedPost(before) == [before EXCEPT !.calls = @ + 1]

\* p.get("text", "").strip() is truthy.
HasText(text) == Strip(text) # <<>>

RECURSIVE EmbedPosts(_, _, _, _)
\* The post loop over the first k posts: the posts as they are left, the count
\* `classified` and the number of get_embedding calls.
EmbedPosts(ps, replies, category_embeddings, k) ==
    IF k = 0 THEN [posts |-> ps, classified |-> 0, calls |-> 0]
    ELSE LET before == EmbedPosts(ps, replies, category_embeddings, k - 1)
         IN  IF ~HasText(ps[k].text) THEN before
             ELSE IF replies[k] = Fail
                  THEN SkipFailedPost(before)
                  ELSE [posts      |-> [before.posts EXCEPT ![k].category =
                                            BestCategory(category_embeddings, replies[k].vec)],
                        classified |-> before.classified + 1,
                        calls      |-> before.calls + 1]

\* classify_posts_embedding(posts): the posts as they are left, the returned count
\* and the numbers of anchor and post embedding calls.
classify_posts_embedding(ps, outcomes, replies) ==
    LET category_embeddings == EmbedAnchors(outcomes, Len(CATEGORIES))
    IN  IF category_embeddings = <<>>
        THEN [posts |-> ps, returned |-> 0,
              anchor_calls |-> Len(CATEGORIES), post_calls |-> 0]
        ELSE LET done == EmbedPosts(ps, replies, category_embeddings, Len(ps))
             IN  [posts |-> done.posts, returned |-> done.classified,
                  anchor_calls |-> Len(CATEGORIES), post_calls |-> done.calls]

\* The vectors the backend answers with for an anchor, and for a post.
AnchorVectors == {<<1, 0>>, <<3, 4>>}
PostVectors == {<<1, 0>>, <<-1, 0>>, <<0, 0>>}
AnchorOutcomes == {Fail} \cup {Returns(v) : v \in AnchorVectors}
PostOutcomes == {Fail} \cup {Returns(v) : v \in PostVectors}

\* The texts of the posts: a blank one, and one that is left after trimming.
PostTexts == {<<" ">>, <<"a">>}

InitEmbed ==
    /\ emb_anchors \in [1..Len(CATEGORIES) -> AnchorOutcomes]
    /\ \E n \in 0..MaxEmbedPosts :
          /\ emb_posts \in [1..n -> [text : PostTexts, category : {None}]]
          /\ emb_replies \in [1..n -> PostOutcomes]
          \* no reply is drawn for a post that is never embedded
          /\ \A k \in 1..n : emb_posts[k].text # <<"a">> => emb_replies[k] = Fail
    /\ emb_returned = None
    /\ emb_anchor_calls = 0
    /\ emb_post_calls = 0
    /\ emb_pc = "call"

\* One call classify_posts_embedding(emb_posts).
ClassifyPostsEmbedding ==
    /\ emb_pc = "call"
    /\ LET out == classify_posts_embedding(emb_posts, emb_anchors, emb_replies)
       IN  /\ emb_posts' = out.posts
           /\ emb_returned' = out.returned
           /\ emb_anchor_calls' = emb_anchor_calls + out.anchor_calls
           /\ emb_post_calls' = emb_post_calls + out.post_calls
    /\ emb_pc' = "done"
    /\ UNCHANGED <<emb_anchors, emb_replies>>
    /\ UNCHANGED <<selVars, clsVars, parseVars, secVars, repVars, pubVars, scoreVars, pipeVars, mapVars>>

NextEmbed == ClassifyPostsEmbedding

StartEmbed == InitEmbed /\ IdleSelect /\ IdleClassify /\ IdleParse /\ IdleSection /\ IdleReport /\ IdlePublic /\ IdleScoring /\ IdlePipeline /\ IdleMap

SpecEmbed == StartEmbed /\ [][NextEmbed]_vars

(***************************************************************************)
(* Claims about classify_posts_embedding (checked under SpecEmbed).        *)
(***************************************************************************)

\* The position of a category in the taxonomy.
TaxonomyIndex(cat) == CHOOSE k \in 1..Len(CATEGORIES) : CATEGORIES[k] = cat

\* The posts that were given a category.
Assigned == {k \in 1..Len(emb_posts) : emb_posts[k].category # None}

\* C15: a category whose anchor embedding failed is assigned to no post; when every
\* anchor fails the function returns 0, makes no post embedding call and assigns no
\* category.
C15_FailedAnchorsDropped ==
    emb_pc = "done" =>
        /\ \A k \in Assigned :
              /\ emb_posts[k].category \in Range(CATEGORIES)
              /\ emb_anchors[TaxonomyIndex(emb_posts[k].category)] # Fail
        /\ (\A c \in 1..Len(CATEGORIES) : emb_anchors[c] = Fail) =>
              /\ emb_returned = 0
              /\ emb_post_calls = 0
              /\ Assigned = {}

\* C15 witness: a post with a text and a vector is given a category although an
\* earlier category's anchor failed.
C15_Witness ==
    /\ emb_pc = "done"
    /\ emb_anchors[1] = Fail
    /\ emb_anchors[2] # Fail
    /\ Len(emb_posts) >= 1
    /\ emb_replies[1] = Returns(<<1, 0>>)
    /\ emb_posts[1].category = CATEGORIES[2]

\* The posts that cannot be classified: no text but blanks, or the embedding fails.
Unembeddable == {k \in 1..Len(emb_posts) :
                    emb_posts[k].text = <<" ">> \/ emb_replies[k] = Fail}

\* C16: a post without text or whose embedding call fails gets no category; such a
\* post does not keep a later post from being classified; the count returned is the
\* number of posts this call gave a category.
C16_SkipsAndCounts ==
    emb_pc = "done" =>
        /\ \A k \in Unembeddable : emb_posts[k].category = None
        /\ (\E c \in 1..Len(CATEGORIES) : emb_anchors[c] # Fail) =>
              Assigned = (1..Len(emb_posts)) \ Unembeddable
        /\ emb_returned = Cardinality(Assigned)

\* C16 witness: the first post's embedding failed and the last post was classified
\* all the same.
C16_Witness ==
    /\ emb_pc = "done"
    /\ Len(emb_posts) >= 2
    /\ emb_posts[1].text = <<"a">>
    /\ emb_replies[1] = Fail
    /\ emb_posts[Len(emb_posts)].category # None
    /\ emb_returned = 1

\* Ten times the cosine similarity of a post vector and an anchor vector, written out.
SimilarityTimes10(post_vec, anchor_vec) ==
    CASE post_vec = <<1, 0>>  /\ anchor_vec = <<1, 0>> -> 10
      [] post_vec = <<1, 0>>  /\ anchor_vec = <<3, 4>> -> 6
      [] post_vec = <<-1, 0>> /\ anchor_vec = <<1, 0>> -> -10
      [] post_vec = <<-1, 0>> /\ anchor_vec = <<3, 4>> -> -6
      [] post_vec = <<0, 0>>                          -> 0

\* C17: the category given to a post has the greatest similarity among the anchors
\* that were embedded, and of the categories of that similarity it is the first in
\* taxonomy order.
C17_ArgmaxFirstWins ==
    emb_pc = "done" =>
        \A k \in Assigned :
            LET chosen == TaxonomyIndex(emb_posts[k].category)
                score(c) == SimilarityTimes10(emb_replies[k].vec, emb_anchors[c].vec)
            IN  \A c \in 1..Len(CATEGORIES) :
                    emb_anchors[c] # Fail =>
                        /\ score(c) <= score(chosen)
                        /\ score(c) = score(chosen) => chosen <= c

\* C17 witness: the post is closest to the anchor of the third and of the fifth
\* category alike, and less close to the first; it is given the third.
C17_Witness ==
    /\ emb_pc = "done"
    /\ emb_anchors[1] = Returns(<<1, 0>>)
    /\ emb_anchors[3] = Returns(<<3, 4>>)
    /\ emb_anchors[5] = Returns(<<3, 4>>)
    /\ Len(emb_posts) >= 1
    /\ emb_replies[1] = Returns(<<-1, 0>>)
    /\ emb_posts[1].category = CATEGORIES[3]

(***************************************************************************)
(* intel_report.py: generate_intel_report_local.                           *)
(***************************************************************************)

\* One iteration of the loop of parse_posts_from_markdown on the locals st.
ParseStep(st, line) ==
    LET author_match == AuthorMatch(line)
    IN  IF st.raised THEN st
        ELSE IF author_match.matched
        THEN [st EXCEPT !.author = NewAuthor(st.author, author_match.group1),
                        !.block = <<>>]
        ELSE IF IsQuotedLine(line)
        THEN LET block     == Append(st.block, QuoteBody(line))
                 eng_match == EngagementSearch(line)
                 out       == _process_post_block(block, st.author, eng_match)
             IN  IF ~eng_match.matched THEN [st EXCEPT !.block = block]
                 ELSE IF out.raised THEN [st EXCEPT !.raised = TRUE]
                 ELSE [st EXCEPT !.posts = IF out.emitted THEN AppendPost(@, out.post)
                                           ELSE @,
                                 !.block = <<>>]
        ELSE [st EXCEPT !.block = ClearBlock(st.block)]

RECURSIVE ParseLines(_, _)
ParseLines(lines, k) ==
    IF k = 0 THEN [posts |-> <<>>, author |-> <<>>, block |-> <<>>, raised |-> FALSE]
    ELSE ParseStep(ParseLines(lines, k - 1), lines[k])

\* parse_posts_from_markdown(markdown), the digest given as its lines: the posts, or
\* the exception.
parse_posts_from_markdown(lines) ==
    LET st == ParseLines(lines, Len(lines))
    IN  [raised |-> st.raised, posts |-> st.posts]

\* batch_size
batch_size == 10

\* str(n) for n >= 0
RECURSIVE str(_)
str(n) ==
    LET digit == <<"0", "1", "2", "3", "4", "5", "6", "7", "8", "9">>[(n % 10) + 1]
    IN  IF n < 10 THEN <<digit>> ELSE str(n \div 10) \o <<digit>>

\* sep.join(items)
RECURSIVE JoinWith(_, _)
JoinWith(items, sep) ==
    IF items = <<>> THEN <<>>
    ELSE IF Len(items) = 1 THEN items[1]
    ELSE items[1] \o sep \o JoinWith(Tail(items), sep)

\* batch_text of classify_batch: "\n".join(f"{i + 1}. {text}" ...), the part of the
\* classification prompt that depends on the posts.
BatchText(txts) ==
    JoinLines([i \in 1..Len(txts) |-> str(i) \o <<".", " ">> \o txts[i]])

\* _format_posts_for_section(posts), the part of the section prompt that depends on
\* the posts.
_format_posts_for_section(ps) ==
    JoinLines([i \in 1..Len(ps) |->
                  <<"-", " ", "[">> \o ps[i].author \o <<"]", " ">> \o ps[i].text])

\* An assignment that counts the posts of every batch from the first post.
AssignResultsFromStart(all, i, batch_results) ==
    [k \in 1..Len(all) |->
        IF k <= Len(batch_results) /\ batch_results[k] # None
        THEN [all[k] EXCEPT !.category = batch_results[k]]
        ELSE all[k]]

\* The results of a batch written to its posts: a None result writes nothing.
AssignResults(all, i, batch_results) ==
    [k \in 1..Len(all) |->
        IF k > i /\ k <= i + Len(batch_results) /\ batch_results[k - i] # None
        THEN [all[k] EXCEPT !.category = batch_results[k - i]]
        ELSE all[k]]

\* A summary that does not wait for the sections.
SummaryAnytime(secs, selected) == TRUE

\* The loop over by_category.items() has ended.
SectionsDone(secs, selected) == Len(secs) = Len(selected)

\* combined_sections, the part of the summary prompt that depends on the run.
CombinedSections(secs) == JoinWith(secs, <<"\n", "\n">>)

\* f"# Global Situation Report: {today}\n"; TODAY stands for the formatted date.
TitleLine ==
    <<"#", " ", "G", "l", "o", "b", "a", "l", " ", "S", "i", "t", "u", "a", "t", "i", "o", "n", " ", "R", "e", "p", "o", "r", "t", ":", " ">> \o <<"TODAY", "\n">>

\* f"*{agent_info}*\n\n"; MODEL stands for the model's name.
AttributionLine ==
    <<"*", "A", "g", "e", "n", "t", ":", " ", "O", "l", "l", "a", "m", "a", " ", "I", "n", "t", "e", "l", "l", "i", "g", "e", "n", "c", "e", " ", "|", " ", "M", "o", "d", "e", "l", ":", " ">> \o <<"MODEL">> \o <<"*", "\n", "\n">>

\* A report whose sections come before the summary.
AssembleSectionsFirst(summary, secs) ==
    TitleLine \o AttributionLine
        \o JoinWith(secs, <<"\n", "-", "-", "-", "\n", "\n">>)
        \o <<"\n", "\n", "-", "-", "-", "\n", "\n">>
        \o <<"*", "*", "E", "x", "e", "c", "u", "t", "i", "v", "e", " ", "S", "u", "m", "m", "a", "r", "y", ":", "*", "*", "\n">> \o summary

\* Step 5: the report.
AssembleReport(summary, secs) ==
    TitleLine \o AttributionLine
        \o <<"*", "*", "E", "x", "e", "c", "u", "t", "i", "v", "e", " ", "S", "u", "m", "m", "a", "r", "y", ":", "*", "*", "\n">> \o summary
        \o <<"\n", "\n", "-", "-", "-", "\n", "\n">>
        \o JoinWith(secs, <<"\n", "-", "-", "-", "\n", "\n">>)

\* The post of eleven posts' digest: a quoted line and its engagement line.
PostLines(eng) == <<QuotedHi, eng>>

\* The digests of the model: empty; one post; three posts of two authors; eleven
\* posts, one more than a batch holds; a digest whose engagement count is a comma.
Digests ==
    { <<>>,
      <<HeaderAl, QuotedHi, Eng30>>,
      <<HeaderAl, QuotedHi, Eng30, HeaderBob, QuotedHi, Eng8554, QuotedHi, Eng30>>,
      <<HeaderAl>> \o PostLines(Eng30) \o PostLines(Eng30) \o PostLines(Eng8554)
          \o PostLines(Eng30) \o PostLines(Eng30) \o <<HeaderBob>> \o PostLines(Eng30)
          \o PostLines(Eng30) \o PostLines(Eng30) \o PostLines(Eng30)
          \o PostLines(Eng30) \o PostLines(Eng8554),
      <<HeaderAl, QuotedHi, EngCommas>> }

\* What the generator answers when asked to classify a batch: nothing; the reply of
\* test_classify_batch_success; a reply naming the third category for the first post
\* and the second for the second; a reply for the first post only; and what
\* _generate_ollama returns when the backend cannot be reached.
ClassifyReplies ==
    { <<>>,
      <<"1", ".", " ", "G", "e", "o", "p", "o", "l", "i", "t", "i", "c", "s", " ", "&", " ", "S", "e", "c", "u", "r", "i", "t", "y", "\n", "2", ".", " ", "E", "c", "o", "n", "o", "m", "i", "c", "s", " ", "&", " ", "M", "a", "r", "k", "e", "t", "s", "\n", "3", ".", " ", "U", "n", "k", "n", "o", "w", "n", " ", "C", "a", "t", "e", "g", "o", "r", "y">>,
      <<"1", ".", " ", "A", "I", " ", "&", " ", "T", "e", "c", "h", "n", "o", "l", "o", "g", "y", " ", "a", "n", "d", " ", "s", "e", "c", "u", "r", "i", "t", "y", "\n", "2", ")", " ", "e", "c", "o", "n", "o", "m", "i", "c", "s">>,
      <<" ", " ", "1", ".", " ", " ", " ", "S", "o", "c", "i", "e", "t", "y", " ", "&", " ", "C", "u", "l", "t", "u", "r", "e", " ", " ">>,
      <<"O", "l", "l", "a", "m", "a", " ", "e", "r", "r", "o", "r", ":", " ", "d", "o", "w", "n">> }

\* What the generator answers when asked for a section.
ReportSectionReplies ==
    { <<"-", " ", "a">>,
      <<"A", "I", " ", "&", " ", "T", "e", "c", "h", "n", "o", "l", "o", "g", "y", "\n", "-", " ", "b", " ", "h", "t", "t", "p", "s", ":", "/", "/", "e", ".", "c", "o", "m">> }

\* What the generator answers when asked for the summary; the second is what
\* _generate_ollama returns when the backend cannot be reached.
SummaryReplies ==
    { <<" ", "C", "a", "l", "m", ".", " ", "\n">>,
      <<"O", "l", "l", "a", "m", "a", " ", "e", "r", "r", "o", "r", ":", " ", "d", "o", "w", "n">> }

InitReport ==
    /\ rep_digest \in Digests
    /\ top_per_category \in 0..MaxTopN
    /\ all_posts = <<>>
    /\ rep_i = 0
    /\ selection = <<>>
    /\ sections = <<>>
    /\ invoked = <<>>
    /\ exec_summary_text = <<>>
    /\ report = <<>>
    /\ rep_calls = <<>>
    /\ rep_pc = "parse"

\* Step 1: all_posts = parse_posts_from_markdown(raw_summary_md).
ReportParse ==
    /\ rep_pc = "parse"
    /\ LET out == parse_posts_from_markdown(rep_digest)
       IN  IF out.raised
           THEN /\ rep_pc' = "raised"
                /\ UNCHANGED all_posts
           ELSE /\ rep_pc' = "classify"
                /\ all_posts' = [k \in 1..Len(out.posts) |->
                                    [text       |-> out.posts[k].text,
                                     engagement |-> out.posts[k].engagement,
                                     author     |-> out.posts[k].author,
                                     category   |-> None]]
    /\ UNCHANGED <<rep_digest, top_per_category, rep_i, selection, sections, invoked,
                   exec_summary_text, report, rep_calls>>
    /\ UNCHANGED <<selVars, clsVars, parseVars, secVars, embVars, pubVars, scoreVars, pipeVars, mapVars>>

\* Step 2, one pass of the loop over the batches: one classify_batch call and the
\* assignment of its results.
ReportClassifyBatch ==
    /\ rep_pc = "classify"
    /\ rep_i < Len(all_posts)
    /\ \E reply \in ClassifyReplies :
          LET batch == SubSeq(all_posts, rep_i + 1, Min(rep_i + batch_size, Len(all_posts)))
              txts  == [j \in 1..Len(batch) |-> batch[j].text]
              out   == classify_batch(txts, reply)
          IN  /\ rep_calls' = Append(rep_calls, [kind |-> "classify", category |-> None,
                                                 input |-> BatchText(txts),
                                                 results |-> out.list])
              /\ IF out.raised
                 THEN /\ rep_pc' = "raised"
                      /\ UNCHANGED all_posts
                 ELSE /\ rep_pc' = "classify"
                      /\ all_posts' = AssignResults(all_posts, rep_i, out.list)
    /\ rep_i' = rep_i + batch_size
    /\ UNCHANGED <<rep_digest, top_per_category, selection, sections, invoked,
                   exec_summary_text, report>>
    /\ UNCHANGED <<selVars, clsVars, parseVars, secVars, embVars, pubVars, scoreVars, pipeVars, mapVars>>

\* Step 3: by_category = select_top_per_category(classified, top_n=top_per_category).
ReportSelect ==
    /\ rep_pc = "classify"
    /\ rep_i >= Len(all_posts)
    /\ LET classified == SelectSeq(all_posts, LAMBDA p : p.category # None)
       IN  selection' = select_top_per_category(classified, top_per_category)
    /\ rep_pc' = "sections"
    /\ UNCHANGED <<rep_digest, top_per_category, all_posts, rep_i, sections, invoked,
                   exec_summary_text, report, rep_calls>>
    /\ UNCHANGED <<selVars, clsVars, parseVars, secVars, embVars, pubVars, scoreVars, pipeVars, mapVars>>

\* Step 4, one pass of the loop over by_category.items():
\* sections.append(generate_section(cat, posts)).
ReportSection ==
    /\ rep_pc = "sections"
    /\ ~SectionsDone(sections, selection)
    /\ \E reply \in ReportSectionReplies :
          LET item == selection[Len(sections) + 1]
              out  == generate_section(item.cat, item.posts, reply)
          IN  /\ sections' = Append(sections, out.text)
              /\ invoked' = Append(invoked, item.cat)
              /\ rep_calls' = IF out.calls = 0 THEN rep_calls
                              ELSE Append(rep_calls,
                                          [kind |-> "section", category |-> item.cat,
                                           input |-> _format_posts_for_section(item.posts),
                                           results |-> <<>>])
    /\ UNCHANGED <<rep_digest, top_per_category, all_posts, rep_i, selection,
                   exec_summary_text, report, rep_pc>>
    /\ UNCHANGED <<selVars, clsVars, parseVars, secVars, embVars, pubVars, scoreVars, pipeVars, mapVars>>

\* Steps 4.5 and 5: the executive summary call and the assembly of the report.
ReportSummary ==
    /\ rep_pc = "sections"
    /\ SectionsDone(sections, selection)
    /\ \E reply \in SummaryReplies :
          /\ rep_calls' = Append(rep_calls, [kind |-> "summary", category |-> None,
                                             input |-> CombinedSections(sections),
                                             results |-> <<>>])
          /\ exec_summary_text' = Strip(reply)
          /\ report' = AssembleReport(Strip(reply), sections)
    /\ rep_pc' = "done"
    /\ UNCHANGED <<rep_digest, top_per_category, all_posts, rep_i, selection,
                   sections, invoked>>
    /\ UNCHANGED <<selVars, clsVars, parseVars, secVars, embVars, pubVars, scoreVars, pipeVars, mapVars>>

NextReport ==
    \/ ReportParse
    \/ ReportClassifyBatch
    \/ ReportSelect
    \/ ReportSection
    \/ ReportSummary

StartReport ==
    /\ InitReport
    /\ IdleSelect /\ IdleClassify /\ IdleParse /\ IdleSection /\ IdleEmbed /\ IdlePublic /\ IdleScoring /\ IdlePipeline /\ IdleMap

SpecReport == StartReport /\ [][NextReport]_vars

(***************************************************************************)
(* Claims about generate_intel_report_local (checked under SpecReport).    *)
(***************************************************************************)

\* The summary calls and the section calls in the log of generator calls.
SummaryCalls == {k \in 1..Len(rep_calls) : rep_calls[k].kind = "summary"}

\* The section texts, two line breaks between one and the next.
RECURSIVE SectionsUpTo(_, _)
SectionsUpTo(k, sep) ==
    IF k = 0 THEN <<>>
    ELSE IF k = 1 THEN sections[1]
    ELSE SectionsUpTo(k - 1, sep) \o sep \o sections[k]

\* C18: generate_section is invoked once for each category of the selection and for
\* no other; the summary is asked for once, after all sections were generated and
\* as the last generator call; its prompt is made of the section texts.
C18_SectionsThenOneSummary ==
    /\ Len(invoked) <= Len(selection)
    /\ \A k \in 1..Len(invoked) : invoked[k] = selection[k].cat
    /\ \A k \in SummaryCalls :
          /\ Len(invoked) = Len(selection)
          /\ Len(sections) = Len(selection)
          /\ k = Len(rep_calls)
          /\ rep_calls[k].input = SectionsUpTo(Len(sections), <<"\n", "\n">>)
    /\ rep_pc = "done" =>
          /\ Len(invoked) = Len(selection)
          /\ Cardinality(SummaryCalls) = 1

\* C18 witness: a finished run with two sections, generated before the summary call.
C18_Witness ==
    /\ rep_pc = "done"
    /\ Len(selection) = 2
    /\ Len(invoked) = 2
    /\ Len(rep_calls) = 4
    /\ rep_calls[2].kind = "section"
    /\ rep_calls[3].kind = "section"
    /\ rep_calls[4].kind = "summary"
    /\ rep_calls[4].input # <<>>

\* The lines of the report in front of the sections, written out.
ReportHead ==
    <<"#", " ", "G", "l", "o", "b", "a", "l", " ", "S", "i", "t", "u", "a", "t", "i", "o", "n", " ", "R", "e", "p", "o", "r", "t", ":", " ">> \o <<"TODAY">>
    \o <<"\n", "*", "A", "g", "e", "n", "t", ":", " ", "O", "l", "l", "a", "m", "a", " ", "I", "n", "t", "e", "l", "l", "i", "g", "e", "n", "c", "e", " ", "|", " ", "M", "o", "d", "e", "l", ":", " ">> \o <<"MODEL">>
    \o <<"*", "\n", "\n", "*", "*", "E", "x", "e", "c", "u", "t", "i", "v", "e", " ", "S", "u", "m", "m", "a", "r", "y", ":", "*", "*", "\n">>

SeparatorAfterSummary ==
    <<"\n", "\n", "-", "-", "-", "\n", "\n">>

SeparatorBetweenSections ==
    <<"\n", "-", "-", "-", "\n", "\n">>

\* s begins with t.
BeginsWith(s, t) == Len(s) >= Len(t) /\ \A j \in 1..Len(t) : s[j] = t[j]

\* C19: the report is the title line, the attribution line, the summary heading and
\* the summary, a separator, and then the sections, one for each category of the
\* selection, in taxonomy order; a category that is not in the selection has no
\* section.
C19_ReportLayout ==
    rep_pc = "done" =>
        /\ report = ReportHead \o exec_summary_text \o SeparatorAfterSummary
                      \o SectionsUpTo(Len(sections), SeparatorBetweenSections)
        /\ Len(sections) = Len(selection)
        /\ \A k \in 1..Len(sections) :
              BeginsWith(sections[k], HeadingText(selection[k].cat))
        /\ \A k \in 1..(Len(selection) - 1) :
              TaxonomyIndex(selection[k].cat) < TaxonomyIndex(selection[k + 1].cat)
        /\ \A c \in Range(CATEGORIES) :
              (\A k \in 1..Len(selection) : selection[k].cat # c) =>
                  ~Occurs(HeadingText(c), report)

\* C19 witness: a report of two sections, the second category of the taxonomy before
\* the third, while the post of the third category comes first in the digest.
C19_Witness ==
    /\ rep_pc = "done"
    /\ Len(selection) = 2
    /\ selection[1].cat = CATEGORIES[2]
    /\ selection[2].cat = CATEGORIES[3]
    /\ all_posts[1].category = CATEGORIES[3]
    /\ all_posts[2].category = CATEGORIES[2]

\* C20 (as claimed): when no post was classified the returned report still shows
\* "No significant developments".
C20_PlaceholdersWhenNoneClassified ==
    (/\ rep_pc = "done"
     /\ all_posts # <<>>
     /\ \A k \in 1..Len(all_posts) : all_posts[k].category = None)
        => Occurs(<<"N", "o", " ", "s", "i", "g", "n", "i", "f", "i", "c", "a", "n", "t", " ", "d", "e", "v", "e", "l", "o", "p", "m", "e", "n", "t", "s">>, report)

(***************************************************************************)
(* intel_report.py: _gemini_generate, _generate_gemini and                 *)
(* generate_intel_report.                                                  *)
(***************************************************************************)

\* What one call client.models.generate_content does: it returns a response with a
\* text, it returns a response whose text is None, or it raises with a message.
GeminiText(t) == [kind |-> "text", text |-> t]
GeminiNoText == [kind |-> "none", text |-> <<>>]
GeminiRaises(msg) == [kind |-> "error", text |-> msg]

\* The message of a quota error, of a quota error behind a status code, and of
\* another error.
QuotaMessage ==
    <<"R", "E", "S", "O", "U", "R", "C", "E", "_", "E", "X", "H", "A", "U", "S", "T", "E", "D", " ", "q", "u", "o", "t", "a">>
StatusQuotaMessage ==
    <<"4", "2", "9", " ", "R", "E", "S", "O", "U", "R", "C", "E", "_", "E", "X", "H", "A", "U", "S", "T", "E", "D">>
ServerMessage ==
    <<"5", "0", "0", " ", "I", "N", "T", "E", "R", "N", "A", "L">>

\* The texts Gemini answers with: a report under its own title, a report without a
\* title, a first line that names the report, and nothing.
GeminiTexts ==
    { <<"#", " ", "G", "l", "o", "b", "a", "l", " ", "S", "i", "t", "u", "a", "t", "i", "o", "n", " ", "R", "e", "p", "o", "r", "t", ":", " ", "X", "\n", "*", "*", "E", "x", "e", "c", "u", "t", "i", "v", "e", " ", "S", "u", "m", "m", "a", "r", "y", ":", "*", "*", " ", "o", "k">>,
      <<"*", "*", "E", "x", "e", "c", "u", "t", "i", "v", "e", " ", "S", "u", "m", "m", "a", "r", "y", ":", "*", "*", " ", "o", "k">>,
      <<"T", "h", "e", " ", "G", "l", "o", "b", "a", "l", " ", "S", "i", "t", "u", "a", "t", "i", "o", "n", " ", "R", "e", "p", "o", "r", "t", "\n", "-", " ", "a", " ", "\n">>,
      <<>> }

GeminiOutcomes ==
    {GeminiText(t) : t \in GeminiTexts} \cup {GeminiNoText}
        \cup {GeminiRaises(m) : m \in {QuotaMessage, StatusQuotaMessage, ServerMessage}}

\* A retry condition that holds for every exception.
RetryIfAnyException(msg) == TRUE

\* retry_if_exception_message(match="RESOURCE_EXHAUSTED"): the pattern is matched at
\* the start of str(exception).
retry_if_exception_message(msg) ==
    StartsAt(msg, 1, <<"R", "E", "S", "O", "U", "R", "C", "E", "_", "E", "X", "H", "A", "U", "S", "T", "E", "D">>)

\* stop_after_attempt(5)
max_attempt_number == 5
stop_after_attempt(attempt_number) == attempt_number >= max_attempt_number

\* str(e) of the RetryError raised when the attempts are used up; FUTURE stands for
\* the repr of the last attempt.
RetryErrorMessage ==
    <<"R", "e", "t", "r", "y", "E", "r", "r", "o", "r", "[">> \o <<"FUTURE">> \o <<"]">>

\* A value a function returned: a string, or None.
Str(t) == [is_str |-> TRUE, text |-> t]
NoneValue == [is_str |-> FALSE, text |-> <<>>]

\* "Error: GEMINI_API_KEY not set in .env"
MissingKeyText ==
    <<"E", "r", "r", "o", "r", ":", " ", "G", "E", "M", "I", "N", "I", "_", "A", "P", "I", "_", "K", "E", "Y", " ", "n", "o", "t", " ", "s", "e", "t", " ", "i", "n", " ", ".", "e", "n", "v">>

\* f"Gemini error: {str(e)}"
GeminiErrorText(msg) ==
    <<"G", "e", "m", "i", "n", "i", " ", "e", "r", "r", "o", "r", ":", " ">> \o msg

\* What _gemini_generate does after an attempt with this outcome, attempt_number
\* attempts made: "retry", or the value or exception it ends with.
AfterAttempt(outcome, attempt_number) ==
    IF outcome.kind = "text" THEN [next |-> "return", value |-> Str(outcome.text)]
    ELSE IF outcome.kind = "none" THEN [next |-> "return", value |-> NoneValue]
    ELSE IF ~retry_if_exception_message(outcome.text)
         THEN [next |-> "return", value |-> Str(GeminiErrorText(outcome.text))]
    ELSE IF stop_after_attempt(attempt_number)
         THEN [next |-> "return", value |-> Str(GeminiErrorText(RetryErrorMessage))]
    ELSE [next |-> "retry", value |-> NoneValue]

\* lines[0].startswith("#") or "Global Situation Report" in lines[0]
IsTitleLine(line) ==
    \/ StartsAt(line, 1, <<"#">>)
    \/ In(<<"G", "l", "o", "b", "a", "l", " ", "S", "i", "t", "u", "a", "t", "i", "o", "n", " ", "R", "e", "p", "o", "r", "t">>, line)

\* Lines 271-273: the reply without the title line the model may have returned.
DropTitleLine(reply_text) ==
    LET lines == SplitLines(reply_text)
    IN  IF lines # <<>> /\ IsTitleLine(lines[1])
        THEN Strip(JoinLines(Tail(lines)))
        ELSE reply_text

\* f"*{agent_info}*\n\n" of the Gemini backend; MODEL stands for the model's name.
GeminiAttributionLine ==
    <<"*", "A", "g", "e", "n", "t", ":", " ", "G", "e", "m", "i", "n", "i", " ", "I", "n", "t", "e", "l", "l", "i", "g", "e", "n", "c", "e", " ", "|", " ", "M", "o", "d", "e", "l", ":", " ">> \o <<"MODEL">> \o <<"*", "\n", "\n">>

\* The report of the Gemini backend, lines 267-275.
GeminiReport(reply_text) ==
    TitleLine \o GeminiAttributionLine \o DropTitleLine(reply_text)

\* The values of OLLAMA_TOP_PER_CATEGORY: not set, or a number.
EnvUnset == [is_set |-> FALSE, value |-> <<>>]
TopPerCategoryEnv == {EnvUnset} \cup {[is_set |-> TRUE, value |-> str(n)] : n \in 0..MaxTopN}

\* int(os.getenv("OLLAMA_TOP_PER_CATEGORY", "10"))
TopPerCat(env) == IF env.is_set THEN int(env.value) ELSE int(<<"1", "0">>)

InitPublic ==
    /\ pub_backend \in {"gemini", "ollama"}
    /\ pub_env_top \in TopPerCategoryEnv
    /\ pub_key \in BOOLEAN
    /\ rep_digest \in Digests
    /\ gem_attempts = <<>>
    /\ raw_report = NoneValue
    /\ pub_report = <<>>
    /\ pub_pc = "start"
    /\ top_per_category = 0 /\ all_posts = <<>> /\ rep_i = 0
    /\ selection = <<>> /\ sections = <<>> /\ invoked = <<>>
    /\ exec_summary_text = <<>> /\ report = <<>> /\ rep_calls = <<>>
    /\ rep_pc = "idle"

\* Lines 249-254: the backend is chosen; the Ollama backend runs
\* generate_intel_report_local(raw_summary_md, top_per_cat).
PublicDispatch ==
    /\ pub_pc = "start"
    /\ IF pub_backend = "ollama"
       THEN /\ top_per_category' = TopPerCat(pub_env_top)
            /\ rep_pc' = "parse"
            /\ pub_pc' = "local"
       ELSE /\ pub_pc' = "gemini"
            /\ UNCHANGED <<top_per_category, rep_pc>>
    /\ UNCHANGED <<pub_backend, pub_env_top, pub_key, gem_attempts, raw_report, pub_report>>
    /\ UNCHANGED <<rep_digest, all_posts, rep_i, selection, sections, invoked,
                   exec_summary_text, report, rep_calls>>
    /\ UNCHANGED <<selVars, clsVars, parseVars, secVars, embVars, scoreVars, pipeVars, mapVars>>

\* generate_intel_report_local has returned, or has raised: so does
\* generate_intel_report (line 254).
PublicReturnLocal ==
    /\ pub_pc = "local"
    /\ rep_pc \in {"done", "raised"}
    /\ IF rep_pc = "done"
       THEN /\ pub_report' = report
            /\ pub_pc' = "done"
       ELSE /\ pub_pc' = "raised"
            /\ UNCHANGED pub_report
    /\ UNCHANGED <<pub_backend, pub_env_top, pub_key, gem_attempts, raw_report>>
    /\ UNCHANGED <<selVars, clsVars, parseVars, secVars, embVars, repVars, scoreVars, pipeVars, mapVars>>

\* _generate_gemini, lines 85-87: without an API key no call is attempted.
GeminiCheckKey ==
    /\ pub_pc = "gemini"
    /\ IF pub_key
       THEN /\ pub_pc' = "attempt"
            /\ UNCHANGED raw_report
       ELSE /\ raw_report' = Str(MissingKeyText)
            /\ pub_pc' = "assemble"
    /\ UNCHANGED <<pub_backend, pub_env_top, pub_key, gem_attempts, pub_report>>
    /\ UNCHANGED <<selVars, clsVars, parseVars, secVars, embVars, repVars, scoreVars, pipeVars, mapVars>>

\* One attempt of _gemini_generate under the retry decorator, and, when it is the
\* last, the return of _generate_gemini (lines 90-94).
GeminiAttempt ==
    /\ pub_pc = "attempt"
    /\ \E outcome \in GeminiOutcomes :
          LET after == AfterAttempt(outcome, Len(gem_attempts) + 1)
          IN  /\ gem_attempts' = Append(gem_attempts, outcome)
              /\ IF after.next = "retry"
                 THEN UNCHANGED <<raw_report, pub_pc>>
                 ELSE /\ raw_report' = after.value
                      /\ pub_pc' = "assemble"
    /\ UNCHANGED <<pub_backend, pub_env_top, pub_key, pub_report>>
    /\ UNCHANGED <<selVars, clsVars, parseVars, secVars, embVars, repVars, scoreVars, pipeVars, mapVars>>

\* Lines 267-275: the header and the reply; raw_report.splitlines() raises when
\* _generate_gemini returned None.
GeminiAssemble ==
    /\ pub_pc = "assemble"
    /\ IF raw_report.is_str
       THEN /\ pub_report' = GeminiReport(raw_report.text)
            /\ pub_pc' = "done"
       ELSE /\ pub_pc' = "raised"
            /\ UNCHANGED pub_report
    /\ UNCHANGED <<pub_backend, pub_env_top, pub_key, gem_attempts, raw_report>>
    /\ UNCHANGED <<selVars, clsVars, parseVars, secVars, embVars, repVars, scoreVars, pipeVars, mapVars>>

NextPublic ==
    \/ PublicDispatch
    \/ PublicReturnLocal
    \/ GeminiCheckKey
    \/ GeminiAttempt
    \/ GeminiAssemble
    \/ ReportParse
    \/ ReportClassifyBatch
    \/ ReportSelect
    \/ ReportSection
    \/ ReportSummary

StartPublic ==
    InitPublic /\ IdleSelect /\ IdleClassify /\ IdleParse /\ IdleSection /\ IdleEmbed /\ IdleScoring /\ IdlePipeline /\ IdleMap

SpecPublic == StartPublic /\ [][NextPublic]_vars

(***************************************************************************)
(* Claims about generate_intel_report and _generate_gemini (SpecPublic).   *)
(***************************************************************************)

\* C21 (as claimed): whatever the backend calls do, generate_intel_report raises no
\* exception.
C21_NeverRaises == pub_pc # "raised"

\* The attempts that failed with a message that begins with RESOURCE_EXHAUSTED.
QuotaFailures ==
    {k \in 1..Len(gem_attempts) :
        /\ gem_attempts[k].kind = "error"
        /\ gem_attempts[k].text = QuotaMessage}

\* C22: _generate_gemini makes at most five attempts; every attempt but the first
\* follows an attempt that failed with a quota message; after a success or another
\* failure no attempt follows.
C22_AtMostFiveAttempts ==
    /\ Len(gem_attempts) <= 5
    /\ \A k \in 1..(Len(gem_attempts) - 1) : k \in QuotaFailures
    /\ (pub_pc = "attempt" /\ gem_attempts # <<>>) => Len(gem_attempts) \in QuotaFailures
    /\ ~pub_key => gem_attempts = <<>>

\* C22 witness: five attempts, each failed with the quota message, and the function
\* has returned.
C22_Witness ==
    /\ pub_pc = "done"
    /\ Len(gem_attempts) = 5
    /\ QuotaFailures = 1..5

\* The number of batches of at most ten posts.
BatchCount == (Len(all_posts) + 9) \div 10

\* C23 (as claimed): a run of generate_intel_report_local that has come to its end
\* has assembled the report and has made one generator call for each batch, one for
\* each category of the selection and one for the summary.
C23_EndsInReportWithBoundedCalls ==
    rep_pc \notin {"idle", "parse", "classify", "sections"} =>
        /\ rep_pc = "done"
        /\ Len(rep_calls) = BatchCount + Len(selection) + 1

\* The generator calls of the run that generate_section did not make.
BackendCallsBesidesSections == {k \in 1..Len(rep_calls) : rep_calls[k].kind # "section"}

\* C26 (as claimed): in a finished run of generate_intel_report_local the generator
\* is called outside generate_section exactly once, for the executive summary; the
\* classification costs no generator call.
C26_OneBackendCallBesidesSections ==
    rep_pc = "done" =>
        /\ Cardinality(BackendCallsBesidesSections) = 1
        /\ \A k \in BackendCallsBesidesSections : rep_calls[k].kind = "summary"

\* Line j of the reply is the last of the lines numbered m.
LastNumbered(j, m) ==
    /\ j \in LinesNumbered(m)
    /\ \A k \in LinesNumbered(m) : k <= j

\* C30: when several reply lines carry the same in-range number, the entry of that
\* number is what the last of them yields by the two-pass rule, whatever the earlier
\* ones yielded: None when the last one matches no category.
C30_LastLineDecides ==
    cls_pc = "batch_done" =>
        \A m \in 1..Len(texts) : \A j \in 1..Len(reply_lines) :
            (LastNumbered(j, m) /\ Cardinality(LinesNumbered(m)) >= 2) =>
                results[m] = TwoPass(AfterNumber(reply_lines[j]))

\* C30 witness: two lines numbered 3, the first naming a category and the second
\* none, and the third entry is None.
C30_Witness ==
    /\ cls_pc = "batch_done"
    /\ Len(texts) = 3
    /\ LinesNumbered(3) = {1, 2}
    /\ TwoPass(AfterNumber(reply_lines[1])) # None
    /\ TwoPass(AfterNumber(reply_lines[2])) = None
    /\ results[3] = None

\* The classification calls of the run; they are the first calls of the log.
ClassifyCalls == {k \in 1..Len(rep_calls) : rep_calls[k].kind = "classify"}

\* The positions in all_posts of batch b: ten consecutive posts, fewer in the last.
BatchPositions(b) == {p \in 1..Len(all_posts) : 10 * (b - 1) < p /\ p <= 10 * b}

\* The number of lines of a text.
LineCount(text) ==
    IF text = <<>> THEN 0 ELSE 1 + Cardinality({c \in 1..Len(text) : text[c] = "\n"})

calculate_engagement_score(likes, reposts, replies) ==
    (likes * 2) + (reposts * 3) + replies

\* The dict _parse_tweets of fetch_timeline.py builds for one tweet, the score
\* written out in place; a metric the API left out counts 0.
_parse_tweets(metrics) ==
    [likes            |-> metrics.like_count,
     reposts          |-> metrics.retweet_count,
     replies          |-> metrics.reply_count,
     engagement_score |-> (metrics.like_count * 2) + (metrics.retweet_count * 3)
                              + metrics.reply_count]

\* The dict _parse_tweets of fetchers/x_fetcher.py builds for one tweet.
XFetcher_parse_tweets(metrics) ==
    [likes            |-> metrics.like_count,
     reposts          |-> metrics.retweet_count,
     replies          |-> metrics.reply_count,
     engagement_score |-> calculate_engagement_score(metrics.like_count,
                                                     metrics.retweet_count,
                                                     metrics.reply_count)]

\* post[key] on a dict: KeyError when the key is missing.
HasKeys(post, keys) == keys \subseteq DOMAIN post

\* _engagement_score(post) of summarize.py
_engagement_score(post) ==
    IF HasKeys(post, {"likes", "retweets", "replies"})
    THEN [raised |-> FALSE, value |-> post["likes"] * 2 + post["retweets"] * 3 + post["replies"]]
    ELSE [raised |-> TRUE, value |-> 0]

\* p.get('engagement_score', 0)
GetEngagementScore(p) ==
    IF "engagement_score" \in DOMAIN p THEN p["engagement_score"] ELSE 0

RECURSIVE SumSeq(_)
SumSeq(s) == IF s = <<>> THEN 0 ELSE Head(s) + SumSeq(Tail(s))

\* mean = sum(scores) / len(scores), as a fraction
Mean(scores) == [num |-> SumSeq(scores), den |-> Len(scores)]

\* s - mean, as a fraction over the mean's denominator
Deviation(s, mean) == [num |-> s * mean.den - mean.num, den |-> mean.den]

\* variance = sum((s - mean) ** 2 for s in scores) / len(scores), as a fraction
Variance(scores, mean) ==
    [num |-> SumSeq([i \in 1..Len(scores) |->
                        Deviation(scores[i], mean).num * Deviation(scores[i], mean).num]),
     den |-> mean.den * mean.den * Len(scores)]

\* The float 0.0.
Zero == [num |-> 0, den |-> 1, radicand |-> [num |-> 1, den |-> 1]]

\* deviation / std_dev where std_dev = math.sqrt(variance): the value
\* (num / den) / sqrt(radicand); ZeroDivisionError when std_dev is 0.
Quotient(deviation, variance) ==
    IF variance.num = 0
    THEN [raised |-> TRUE, value |-> Zero]
    ELSE [raised |-> FALSE,
          value  |-> [num |-> deviation.num, den |-> deviation.den,
                      radicand |-> variance]]

\* A normalisation that divides whatever the standard deviation is.
NormalizedScoreUnguarded(score, mean, variance) ==
    Quotient(Deviation(score, mean), variance)

\* The body of the loop of add_z_scores: the value written to normalized_score.
NormalizedScore(score, mean, variance) ==
    IF variance.num = 0
    THEN [raised |-> FALSE, value |-> Zero]
    ELSE Quotient(Deviation(score, mean), variance)

\* A store that lands on the engagement of the post.
SetEngagementInstead(p, value) ==
    [key \in DOMAIN p |-> IF key = "engagement" THEN 0 ELSE p[key]]

\* p['normalized_score'] = value: the key is added, or its value replaced.
SetNormalizedScore(p, value) ==
    [key \in DOMAIN p \cup {"normalized_score"} |->
        IF key = "normalized_score" THEN value ELSE p[key]]

\* add_z_scores(posts): the list after the call, or the exception it raised.
add_z_scores(ps) ==
    IF ps = <<>> THEN [raised |-> FALSE, posts |-> ps]
    ELSE LET scores   == [i \in 1..Len(ps) |-> GetEngagementScore(ps[i])]
             mean     == Mean(scores)
             variance == Variance(scores, mean)
             written  == [i \in 1..Len(ps) |->
                             NormalizedScore(GetEngagementScore(ps[i]), mean, variance)]
         IN  IF \E i \in 1..Len(ps) : written[i].raised
             THEN [raised |-> TRUE, posts |-> ps]
             ELSE [raised |-> FALSE,
                   posts  |-> [i \in 1..Len(ps) |->
                                  SetNormalizedScore(ps[i], written[i].value)]]

\* The public_metrics of one tweet.
Metrics ==
    [like_count : 0..MaxCount, retweet_count : 0..MaxCount, reply_count : 0..MaxCount]

InitScoring ==
    /\ sc_metrics \in UNION {[1..n -> Metrics] : n \in 0..MaxScored}
    /\ sc_posts = <<>>
    /\ sc_digest = <<>>
    /\ sc_pc = "parse"

\* The fetchers of X posts: fetch_timeline.py and fetchers/x_fetcher.py.
XFetchers == {"fetch_timeline", "x_fetcher"}

\* posts.extend(_parse_tweets(...)) of either fetcher, for the fetched tweets.
ScoreParse ==
    /\ sc_pc = "parse"
    /\ \E fetcher \in XFetchers :
          sc_posts' = [i \in 1..Len(sc_metrics) |->
                          IF fetcher = "fetch_timeline"
                          THEN _parse_tweets(sc_metrics[i])
                          ELSE XFetcher_parse_tweets(sc_metrics[i])]
    /\ sc_pc' = "normalise"
    /\ UNCHANGED <<sc_metrics, sc_digest>>
    /\ UNCHANGED <<selVars, clsVars, parseVars, secVars, embVars, repVars, pubVars, pipeVars, mapVars>>

\* add_z_scores(posts), the last step of a fetcher.
ScoreNormalise ==
    /\ sc_pc = "normalise"
    /\ LET out == add_z_scores(sc_posts)
       IN  /\ sc_posts' = out.posts
           /\ sc_pc' = IF out.raised THEN "normalise_raised" ELSE "digest"
    /\ UNCHANGED <<sc_metrics, sc_digest>>
    /\ UNCHANGED <<selVars, clsVars, parseVars, secVars, embVars, repVars, pubVars, pipeVars, mapVars>>

\* build_markdown(posts) of main.py, as far as the scores go: none for an empty
\* list, else _engagement_score of every post, for the order of the authors.
ScoreDigest ==
    /\ sc_pc = "digest"
    /\ LET scored == [i \in 1..Len(sc_posts) |-> _engagement_score(sc_posts[i])]
       IN  IF \E i \in 1..Len(sc_posts) : scored[i].raised
           THEN /\ sc_pc' = "digest_raised"
                /\ UNCHANGED sc_digest
           ELSE /\ sc_pc' = "done"
                /\ sc_digest' = [i \in 1..Len(sc_posts) |-> scored[i].value]
    /\ UNCHANGED <<sc_metrics, sc_posts>>
    /\ UNCHANGED <<selVars, clsVars, parseVars, secVars, embVars, repVars, pubVars, pipeVars, mapVars>>

NextScoring ==
    \/ ScoreParse
    \/ ScoreNormalise
    \/ ScoreDigest

StartScoring ==
    /\ InitScoring
    /\ IdleSelect /\ IdleClassify /\ IdleParse /\ IdleSection /\ IdleEmbed
    /\ IdleReport /\ IdlePublic /\ IdlePipeline /\ IdleMap

SpecScoring == StartScoring /\ [][NextScoring]_vars

(***************************************************************************)
(* Claims about the scores.                                                *)
(***************************************************************************)

\* The engagement_score of the fetched posts, in order.
ScoresOf(ps) == [i \in 1..Len(ps) |-> ps[i].engagement_score]

\* n times (score i minus the mean of the scores): an integer.
ScaledDeviation(scores, i) == Len(scores) * scores[i] - SumSeq(scores)

\* The sum of the squares of the scaled deviations.
ScaledSquares(scores) ==
    SumSeq([i \in 1..Len(scores) |->
               ScaledDeviation(scores, i) * ScaledDeviation(scores, i)])

Sign(x) == IF x > 0 THEN 1 ELSE IF x < 0 THEN 0 - 1 ELSE 0

\* The value z is (score i - mean) / std_dev of the scores: it has the sign of the
\* deviation, and its square times the sum of the squared deviations is n times the
\* squared deviation.
IsZScore(z, scores, i) ==
    /\ z.den > 0 /\ z.radicand.num > 0 /\ z.radicand.den > 0
    /\ Sign(z.num) = Sign(ScaledDeviation(scores, i))
    /\ z.num * z.num * z.radicand.den * ScaledSquares(scores)
           = Len(scores) * ScaledDeviation(scores, i) * ScaledDeviation(scores, i)
                 * z.den * z.den * z.radicand.num

\* C27: add_z_scores never raises; it leaves an empty list empty; when all scores
\* are equal every post gets normalized_score 0.0; otherwise post i gets
\* (score i - mean) / std_dev.
C27_ZScoresNeverRaise ==
    /\ sc_pc # "normalise_raised"
    /\ sc_pc \in {"digest", "done", "digest_raised"} =>
          /\ Len(sc_posts) = Len(sc_metrics)
          /\ \A i \in 1..Len(sc_posts) :
                /\ "normalized_score" \in DOMAIN sc_posts[i]
                /\ IF \A j \in 1..Len(sc_posts) :
                          sc_posts[j].engagement_score = sc_posts[i].engagement_score
                   THEN sc_posts[i].normalized_score = Zero
                   ELSE IsZScore(sc_posts[i].normalized_score, ScoresOf(sc_posts), i)

\* C27 witnesses: two posts of equal score 3 from different counts, both at 0.0 ...
C27_Witness ==
    /\ sc_pc = "digest"
    /\ Len(sc_posts) = 2
    /\ sc_metrics[1] # sc_metrics[2]
    /\ sc_posts[1].engagement_score = 3 /\ sc_posts[2].engagement_score = 3
    /\ sc_posts[1].normalized_score = Zero

\* ... and two posts of scores 0 and 6, one below the mean and one above it.
C27_WitnessSpread ==
    /\ sc_pc = "digest"
    /\ ScoresOf(sc_posts) = <<0, 6>>
    /\ sc_posts[1].normalized_score.num < 0
    /\ sc_posts[2].normalized_score.num > 0

\* C28 (as claimed): the score of every fetched post is 2 * likes + 3 * reposts +
\* replies of its counts, whichever fetcher built it, and the digest writer computes
\* that same value for it.
C28_OneScoreEverywhere ==
    /\ \A i \in 1..Len(sc_posts) :
          sc_posts[i].engagement_score =
              2 * sc_metrics[i].like_count + 3 * sc_metrics[i].retweet_count
                  + sc_metrics[i].reply_count
    /\ sc_pc # "digest_raised"
    /\ sc_pc = "done" =>
          /\ Len(sc_digest) = Len(sc_metrics)
          /\ \A i \in 1..Len(sc_digest) :
                sc_digest[i] = 2 * sc_metrics[i].like_count
                                   + 3 * sc_metrics[i].retweet_count
                                   + sc_metrics[i].reply_count

(***************************************************************************)
(* The operations of the pipeline on one collection of posts, each applied *)
(* at most once, in any order: add_z_scores, classify_posts_embedding, the *)
(* batch classification of generate_intel_report_local,                    *)
(* select_top_per_category, generate_section.                              *)
(***************************************************************************)

\* The digests the collection is parsed from: one post; three posts of two authors.
PipelineDigests ==
    { <<HeaderAl, QuotedHi, Eng30>>,
      <<HeaderAl, QuotedHi, Eng30, HeaderBob, QuotedHi, Eng8554, QuotedHi, Eng30>> }

\* What the embedding backend answers for the anchors: a vector for each category.
PipelineAnchors ==
    [k \in 1..Len(CATEGORIES) |-> IF k = 1 THEN Returns(<<1, 0>>) ELSE Returns(<<3, 4>>)]

\* What the embedding backend answers for a post.
PipelineReplies == {Fail, Returns(<<1, 0>>)}

InitPipeline ==
    /\ pl_digest \in PipelineDigests
    /\ pl_parsed = <<>>
    /\ pl_posts = <<>>
    /\ pl_selection = <<>>
    /\ pl_section = <<>>
    /\ pl_done = {}
    /\ pl_pc = "parse"

\* parse_posts_from_markdown(digest): the collection is built.
PipeParse ==
    /\ pl_pc = "parse"
    /\ LET out == parse_posts_from_markdown(pl_digest)
       IN  /\ ~out.raised
           /\ pl_parsed' = out.posts
           /\ pl_posts' = [k \in 1..Len(out.posts) |->
                              [text       |-> out.posts[k].text,
                               engagement |-> out.posts[k].engagement,
                               author     |-> out.posts[k].author,
                               category   |-> None]]
    /\ pl_pc' = "ops"
    /\ UNCHANGED <<pl_digest, pl_selection, pl_section, pl_done>>
    /\ UNCHANGED <<selVars, clsVars, parseVars, secVars, embVars, repVars, pubVars, scoreVars, mapVars>>

\* add_z_scores(posts)
PipeNormalise ==
    /\ pl_pc = "ops"
    /\ "normalise" \notin pl_done
    /\ LET out == add_z_scores(pl_posts)
       IN  /\ ~out.raised
           /\ pl_posts' = out.posts
    /\ pl_done' = pl_done \cup {"normalise"}
    /\ UNCHANGED <<pl_digest, pl_parsed, pl_selection, pl_section, pl_pc>>
    /\ UNCHANGED <<selVars, clsVars, parseVars, secVars, embVars, repVars, pubVars, scoreVars, mapVars>>

\* classify_posts_embedding(posts)
PipeClassifyEmbedding ==
    /\ pl_pc = "ops"
    /\ "classify_embedding" \notin pl_done
    /\ \E replies \in [1..Len(pl_posts) -> PipelineReplies] :
          pl_posts' = classify_posts_embedding(pl_posts, PipelineAnchors, replies).posts
    /\ pl_done' = pl_done \cup {"classify_embedding"}
    /\ UNCHANGED <<pl_digest, pl_parsed, pl_selection, pl_section, pl_pc>>
    /\ UNCHANGED <<selVars, clsVars, parseVars, secVars, embVars, repVars, pubVars, scoreVars, mapVars>>

\* Step 2 of generate_intel_report_local for a collection of at most ten posts: one
\* classify_batch call and the assignment of its results.
PipeClassifyBatch ==
    /\ pl_pc = "ops"
    /\ "classify_batch" \notin pl_done
    /\ pl_posts # <<>>
    /\ \E reply \in ClassifyReplies :
          LET txts == [j \in 1..Len(pl_posts) |-> pl_posts[j].text]
              out  == classify_batch(txts, reply)
          IN  /\ ~out.raised
              /\ pl_posts' = AssignResults(pl_posts, 0, out.list)
    /\ pl_done' = pl_done \cup {"classify_batch"}
    /\ UNCHANGED <<pl_digest, pl_parsed, pl_selection, pl_section, pl_pc>>
    /\ UNCHANGED <<selVars, clsVars, parseVars, secVars, embVars, repVars, pubVars, scoreVars, mapVars>>

\* select_top_per_category(classified, top_n), classified as in step 3 of
\* generate_intel_report_local.
PipeSelect ==
    /\ pl_pc = "ops"
    /\ "select" \notin pl_done
    /\ \E n \in 0..MaxTopN :
          LET classified == SelectSeq(pl_posts, LAMBDA p : p.category # None)
          IN  pl_selection' = select_top_per_category(classified, n)
    /\ pl_done' = pl_done \cup {"select"}
    /\ UNCHANGED <<pl_digest, pl_parsed, pl_posts, pl_section, pl_pc>>
    /\ UNCHANGED <<selVars, clsVars, parseVars, secVars, embVars, repVars, pubVars, scoreVars, mapVars>>

\* generate_section(cat, posts) for one item of the selection.
PipeSection ==
    /\ pl_pc = "ops"
    /\ "section" \notin pl_done
    /\ \E k \in 1..Len(pl_selection) : \E reply \in ReportSectionReplies :
          pl_section' = generate_section(pl_selection[k].cat, pl_selection[k].posts,
                                         reply).text
    /\ pl_done' = pl_done \cup {"section"}
    /\ UNCHANGED <<pl_digest, pl_parsed, pl_posts, pl_selection, pl_pc>>
    /\ UNCHANGED <<selVars, clsVars, parseVars, secVars, embVars, repVars, pubVars, scoreVars, mapVars>>

NextPipeline ==
    \/ PipeParse
    \/ PipeNormalise
    \/ PipeClassifyEmbedding
    \/ PipeClassifyBatch
    \/ PipeSelect
    \/ PipeSection

StartPipeline ==
    /\ InitPipeline
    /\ IdleSelect /\ IdleClassify /\ IdleParse /\ IdleSection /\ IdleEmbed /\ IdleMap
    /\ IdleReport /\ IdlePublic /\ IdleScoring

SpecPipeline == StartPipeline /\ [][NextPipeline]_vars

(***************************************************************************)
(* Claims about the operations on the collection.                          *)
(***************************************************************************)

\* The classifiers among the operations.
Classifiers == {"classify_embedding", "classify_batch"}

\* C25: whatever operations have been applied, in whatever order, the collection
\* holds the posts that were parsed, in their order, each with the text, the
\* engagement and the author it was parsed with; a post has a category only once a
\* classifier has run and a normalized_score only once the scorer has run, and it
\* has no other new field; the posts of a selection are posts of the collection.
C25_PostsKeepTextEngagementAuthor ==
    pl_pc = "ops" =>
        /\ Len(pl_posts) = Len(pl_parsed)
        /\ \A k \in 1..Len(pl_posts) :
              /\ pl_posts[k].text = pl_parsed[k].text
              /\ pl_posts[k].engagement = pl_parsed[k].engagement
              /\ pl_posts[k].author = pl_parsed[k].author
              /\ DOMAIN pl_posts[k] \subseteq
                     {"text", "engagement", "author", "category", "normalized_score"}
              /\ pl_posts[k].category # None => pl_done \cap Classifiers # {}
              /\ "normalized_score" \in DOMAIN pl_posts[k] <=> "normalise" \in pl_done
        /\ \A c \in 1..Len(pl_selection) : \A j \in 1..Len(pl_selection[c].posts) :
              \E k \in 1..Len(pl_posts) :
                  /\ pl_selection[c].posts[j].text = pl_posts[k].text
                  /\ pl_selection[c].posts[j].engagement = pl_posts[k].engagement
                  /\ pl_selection[c].posts[j].author = pl_posts[k].author

\* C25 witness: all five operations have been applied to three posts, one of which
\* has both a category and a normalized_score, and a section was generated.
C25_Witness ==
    /\ pl_pc = "ops"
    /\ pl_done = Classifiers \cup {"normalise", "select", "section"}
    /\ Len(pl_posts) = 3
    /\ \E k \in 1..3 :
          /\ pl_posts[k].category # None
          /\ "normalized_score" \in DOMAIN pl_posts[k]
    /\ pl_selection # <<>>
    /\ pl_section # <<>>

(***************************************************************************)
(* The map stage of generate_intel_report_local with its generate_section  *)
(* calls run as concurrent tasks: the steps of the calls are taken in any  *)
(* interleaving, each call keeps its locals, and the caller puts the value *)
(* a call returns at the place of its category.  The generator is a        *)
(* function of its prompt.                                                 *)
(***************************************************************************)

\* A call that is given the posts of the first item.
CallPostsOfFirst(selected, k) == selected[1].posts

\* The posts a call is given: those of its own item of by_category.
CallPosts(selected, k) == selected[k].posts

\* Two generators, each a function of the prompt: the first answers by whether the
\* prompt quotes the author al, the second by the length of the prompt.
Generators == {"by_author", "by_length"}

\* The reply of a generator to a prompt, the prompt given by the part of it that
\* depends on the run.
Generate(gen, prompt) ==
    LET first  == <<"-", " ", "a">>
        second == <<"A", "I", " ", "&", " ", "T", "e", "c", "h", "n", "o", "l", "o", "g", "y", "\n", "-", " ", "b", " ", "h", "t", "t", "p", "s", ":", "/", "/", "e", ".", "c", "o", "m">>
    IN  IF gen = "by_author"
        THEN IF Occurs(<<"[", "a", "l", "]">>, prompt) THEN first ELSE second
        ELSE IF Len(prompt) % 2 = 0 THEN first ELSE second

\* SECTION_PROMPT.format(category=..., posts=...): the parts that depend on the call.
SectionPrompt(category, posts_text) == Chars(category) \o <<"\n">> \o posts_text

\* The three parsed posts of the digest of two authors.
MapParsedPosts ==
    parse_posts_from_markdown(
        <<HeaderAl, QuotedHi, Eng30, HeaderBob, QuotedHi, Eng8554, QuotedHi, Eng30>>).posts

\* The categories the posts of the stage were classified into.
MapCategories == {CATEGORIES[1], CATEGORIES[2], CATEGORIES[3]}

\* A call that has not begun.
CallNotBegun == [pc |-> "begin", posts_text |-> <<>>, section_text |-> <<>>]

InitMap ==
    /\ \E cats \in [1..Len(MapParsedPosts) -> MapCategories] :
          map_posts = [k \in 1..Len(MapParsedPosts) |->
                          [text       |-> MapParsedPosts[k].text,
                           engagement |-> MapParsedPosts[k].engagement,
                           author     |-> MapParsedPosts[k].author,
                           category   |-> cats[k]]]
    /\ map_top_n \in 0..MaxTopN
    /\ map_gen \in Generators
    /\ map_selection = <<>>
    /\ map_calls = <<>>
    /\ map_sections = <<>>
    /\ map_report = <<>>
    /\ map_pc = "select"

\* Step 3: by_category = select_top_per_category(classified, top_n=top_per_category);
\* no call of step 4 has begun.
MapSelect ==
    /\ map_pc = "select"
    /\ LET selected == select_top_per_category(map_posts, map_top_n)
       IN  /\ map_selection' = selected
           /\ map_calls' = [k \in 1..Len(selected) |-> CallNotBegun]
           /\ map_sections' = [k \in 1..Len(selected) |-> <<>>]
    /\ map_pc' = "map"
    /\ UNCHANGED <<map_posts, map_top_n, map_gen, map_report>>
    /\ UNCHANGED <<selVars, clsVars, parseVars, secVars, embVars, repVars, pubVars, scoreVars, pipeVars>>

\* generate_section up to the prompt: the placeholder is returned for no posts, else
\* the posts are formatted.
MapFormat ==
    /\ map_pc = "map"
    /\ \E k \in 1..Len(map_calls) :
          /\ map_calls[k].pc = "begin"
          /\ LET call_posts == CallPosts(map_selection, k)
             IN  IF call_posts = <<>>
                 THEN /\ map_calls' = [map_calls EXCEPT ![k].pc = "returned"]
                      /\ map_sections' =
                             [map_sections EXCEPT ![k] =
                                 generate_section(map_selection[k].cat, call_posts, <<>>).text]
                 ELSE /\ map_calls' =
                             [map_calls EXCEPT ![k].pc = "formatted",
                                               ![k].posts_text =
                                                   _format_posts_for_section(call_posts)]
                      /\ UNCHANGED map_sections
    /\ UNCHANGED <<map_posts, map_top_n, map_gen, map_selection, map_report, map_pc>>
    /\ UNCHANGED <<selVars, clsVars, parseVars, secVars, embVars, repVars, pubVars, scoreVars, pipeVars>>

\* section_text = _generate_ollama(prompt).strip()
MapGenerate ==
    /\ map_pc = "map"
    /\ \E k \in 1..Len(map_calls) :
          /\ map_calls[k].pc = "formatted"
          /\ map_calls' =
                 [map_calls EXCEPT
                     ![k].pc = "generated",
                     ![k].section_text =
                         Strip(Generate(map_gen,
                                        SectionPrompt(map_selection[k].cat,
                                                      map_calls[k].posts_text)))]
    /\ UNCHANGED <<map_posts, map_top_n, map_gen, map_selection, map_sections,
                   map_report, map_pc>>
    /\ UNCHANGED <<selVars, clsVars, parseVars, secVars, embVars, repVars, pubVars, scoreVars, pipeVars>>

\* The rest of generate_section, and its return.
MapReturn ==
    /\ map_pc = "map"
    /\ \E k \in 1..Len(map_calls) :
          /\ map_calls[k].pc = "generated"
          /\ map_calls' = [map_calls EXCEPT ![k].pc = "returned"]
          /\ map_sections' =
                 [map_sections EXCEPT ![k] =
                     generate_section(map_selection[k].cat, CallPosts(map_selection, k),
                                      map_calls[k].section_text).text]
    /\ UNCHANGED <<map_posts, map_top_n, map_gen, map_selection, map_report, map_pc>>
    /\ UNCHANGED <<selVars, clsVars, parseVars, secVars, embVars, repVars, pubVars, scoreVars, pipeVars>>

\* Steps 4.5 and 5, once every call has returned.
MapAssemble ==
    /\ map_pc = "map"
    /\ \A k \in 1..Len(map_calls) : map_calls[k].pc = "returned"
    /\ map_report' =
           AssembleReport(Strip(Generate(map_gen, CombinedSections(map_sections))),
                          map_sections)
    /\ map_pc' = "done"
    /\ UNCHANGED <<map_posts, map_top_n, map_gen, map_selection, map_calls, map_sections>>
    /\ UNCHANGED <<selVars, clsVars, parseVars, secVars, embVars, repVars, pubVars, scoreVars, pipeVars>>

NextMap ==
    \/ MapSelect
    \/ MapFormat
    \/ MapGenerate
    \/ MapReturn
    \/ MapAssemble

StartMap ==
    /\ InitMap
    /\ IdleSelect /\ IdleClassify /\ IdleParse /\ IdleSection /\ IdleEmbed
    /\ IdleReport /\ IdlePublic /\ IdleScoring /\ IdlePipeline

SpecMap == StartMap /\ [][NextMap]_vars

(***************************************************************************)
(* Claims about the map stage.                                             *)
(***************************************************************************)

\* The posts of the stage with category c, in document order.
PostsOfCategory(c) == SelectSeq(map_posts, LAMBDA p : p.category = c)

\* The lines "- [author] text" of a list of posts.
PostLinesOf(ps) ==
    JoinLines([i \in 1..Len(ps) |->
                  <<"-", " ", "[">> \o ps[i].author \o <<"]", " ">> \o ps[i].text])

\* What the sequential loop over by_category.items() appends for item k.
SequentialSection(k) ==
    LET item == map_selection[k]
    IN  generate_section(item.cat, item.posts,
                         Generate(map_gen,
                                  SectionPrompt(item.cat, PostLinesOf(item.posts)))).text

\* The sections of the sequential run.
SequentialSections == [k \in 1..Len(map_selection) |-> SequentialSection(k)]

C24_WitnessReport ==
    /\ map_pc = "done"
    /\ Len(map_sections) = 3
    /\ map_report # <<>>

====
